---- MODULE Spec2Model ----
(***************************************************************************)
(* Model of tetsuo-core (native/tetsuo-core/src): the public verification   *)
(* API (api.c), the proof verifier and batch verifier (verify.c) and the    *)
(* Groth16 pairing layer (pairing.c).                                       *)
(*                                                                          *)
(* Scaling.  The 256-bit field is scaled to FieldBits bits, a byte to       *)
(* ByteBits bits, the BN254 base prime to FIELD_MODULUS and the group order *)
(* to GROUP_ORDER (FIELD_MODULUS > GROUP_ORDER, as for BN254).  G1 and G2   *)
(* points are represented by their discrete logarithm; the pairing of the   *)
(* linked library is the bilinear map e(P, Q) = P * Q mod GROUP_ORDER.      *)
(* 32-bit and 64-bit integers of the policy code keep their width.          *)
(***************************************************************************)
EXTENDS Integers, Sequences, FiniteSets, TLC

(***************************************************************************)
(* Field layer (field.h, field.c)                                           *)
(***************************************************************************)
FieldBits == 6
ByteBits == 3
FIELD_MODULUS == 11
GROUP_ORDER == 7

Pow2(n) == 2 ^ n

MontR == Pow2(FieldBits)
FieldBytes == FieldBits \div ByteBits
ByteVals == 0 .. (Pow2(ByteBits) - 1)

\* R^2 mod p
FIELD_R2 == (MontR * MontR) % FIELD_MODULUS
\* -p^(-1) mod 2^FieldBits
FIELD_INV == CHOOSE k \in 0 .. (MontR - 1) : (k * FIELD_MODULUS + 1) % MontR = 0

\* mont_reduce: t -> t / R mod p, one conditional subtraction at the end
mont_reduce(t) ==
    LET k == (t * FIELD_INV) % MontR
        u == (t + k * FIELD_MODULUS) \div MontR
    IN IF u >= FIELD_MODULUS THEN u - FIELD_MODULUS ELSE u

\* field_add: the sum, less p when it carried out or is not below p
field_add(a, b) ==
    LET sum == (a + b) % MontR
        carry == (a + b) >= MontR
    IN IF carry \/ sum >= FIELD_MODULUS
       THEN (sum + MontR - FIELD_MODULUS) % MontR
       ELSE sum

field_mul(a, b) == mont_reduce(a * b)

field_to_mont(a) == field_mul(a, FIELD_R2)

\* big-endian byte string (1-based sequence) to integer
RECURSIVE field_from_bytes(_)
field_from_bytes(bytes) ==
    IF bytes = <<>> THEN 0
    ELSE field_from_bytes(SubSeq(bytes, 1, Len(bytes) - 1)) * Pow2(ByteBits)
         + bytes[Len(bytes)]

(***************************************************************************)
(* Points (field.h point_t, verify.c).  kind "inf": z = 0; "aff": a point   *)
(* of the curve with discrete logarithm v # 0; "off": coordinates that do   *)
(* not satisfy the curve equation.                                          *)
(***************************************************************************)
PointInf == [kind |-> "inf", v |-> 0]
PointAff(d) == [kind |-> "aff", v |-> d]
PointOff == [kind |-> "off", v |-> 0]

point_is_infinity(p) == p.kind = "inf"

point_is_on_curve(p) == p.kind # "off"

\* the group element of discrete logarithm d
GroupElem(d) == IF d % GROUP_ORDER = 0 THEN PointInf ELSE PointAff(d % GROUP_ORDER)

\* point_double(r, p).  aliased: r and p are the same object; r->z is then
\* computed from the y already written to r, and the coordinates left in r
\* are not those of a curve point.  Anything computed from off-curve
\* coordinates is not a curve point.
point_double(p, aliased) ==
    IF p.kind = "inf" THEN p
    ELSE IF p.kind = "off" THEN PointOff
    ELSE IF aliased THEN PointOff
    ELSE GroupElem(2 * p.v)

\* point_double writing to an object of its own
point_double_apart(p, aliased) ==
    IF p.kind = "inf" THEN p
    ELSE IF p.kind = "off" THEN PointOff
    ELSE GroupElem(2 * p.v)

\* point_add(r, p, q).  r_is_p: r and p are the same object; for equal
\* points the sum is point_double(r, p)
point_add(p, q, r_is_p) ==
    IF p.kind = "inf" THEN q
    ELSE IF q.kind = "inf" THEN p
    ELSE IF p.kind = "off" \/ q.kind = "off" THEN PointOff
    ELSE IF p.v = q.v THEN point_double(p, r_is_p)
    ELSE GroupElem(p.v + q.v)

\* point_mul: the ladder over the bits of the raw limbs of scalar from the
\* top: swap r0 and r1 when the bit is set, point_add(&r1, &r0, &r1),
\* point_double(&r0, &r0), swap back
RECURSIVE point_mul_loop(_, _, _, _)
point_mul_loop(r0, r1, scalar, i) ==
    IF i < 0 THEN r0
    ELSE LET b == (scalar \div Pow2(i)) % 2
             s0 == IF b = 1 THEN r1 ELSE r0
             s1 == IF b = 1 THEN r0 ELSE r1
             a1 == point_add(s0, s1, FALSE)
             d0 == point_double(s0, TRUE)
         IN point_mul_loop(IF b = 1 THEN a1 ELSE d0, IF b = 1 THEN d0 ELSE a1,
                           scalar, i - 1)

point_mul(p, scalar) == point_mul_loop(PointInf, p, scalar, FieldBits - 1)

\* window width chosen by multi_scalar_mul
WindowBits(count) == IF count < 32 THEN 4 ELSE IF count < 256 THEN 6 ELSE 8

\* the c-bit digit of scalar in window w
WindowDigit(scalar, w, c) == (scalar \div Pow2(w * c)) % Pow2(c)

\* one window of the bucket method: bucket b after points 1 .. i, points[i]
\* being added to bucket (digit - 1) by point_add(&buckets[..], &buckets[..],
\* &points[i])
RECURSIVE Bucket(_, _, _, _, _, _)
Bucket(points, scalars, w, c, b, i) ==
    IF i = 0 THEN PointInf
    ELSE LET before == Bucket(points, scalars, w, c, b, i - 1)
         IN IF WindowDigit(scalars[i], w, c) = b
            THEN point_add(before, points[i], TRUE)
            ELSE before

\* the pass from the last bucket down to the first: the bucket is added to
\* running and running to sum
RECURSIVE RunningSum(_, _, _, _, _, _, _)
RunningSum(points, scalars, w, c, i, running, sum) ==
    IF i = 0 THEN sum
    ELSE LET r == point_add(running, Bucket(points, scalars, w, c, i, Len(points)), TRUE)
         IN RunningSum(points, scalars, w, c, i - 1, r, point_add(sum, r, TRUE))

WindowSum(points, scalars, w, c) ==
    RunningSum(points, scalars, w, c, Pow2(c) - 1, PointInf, PointInf)

\* c times point_double(&result, &result)
RECURSIVE DoubleTimes(_, _)
DoubleTimes(result, n) ==
    IF n = 0 THEN result ELSE DoubleTimes(point_double(result, TRUE), n - 1)

\* result after processing windows num_windows-1 down to w
RECURSIVE MsmFrom(_, _, _, _, _)
MsmFrom(points, scalars, w, c, acc) ==
    IF w < 0 THEN acc
    ELSE MsmFrom(points, scalars, w - 1, c,
                 point_add(DoubleTimes(acc, c), WindowSum(points, scalars, w, c), TRUE))

\* multi_scalar_mul when the buckets can be allocated
multi_scalar_mul(points, scalars) ==
    LET count == Len(points)
        c == WindowBits(count)
        num_windows == (FieldBits + c - 1) \div c
    IN IF count = 0 THEN PointInf
       ELSE IF count = 1 THEN point_mul(points[1], scalars[1])
       ELSE MsmFrom(points, scalars, num_windows - 1, c, PointInf)

(***************************************************************************)
(* Result codes (verify.h verify_result_t, tetsuo.h tetsuo_result_t)        *)
(***************************************************************************)
VERIFY_OK == "OK"
VERIFY_INVALID_PROOF == "INVALID_PROOF"
VERIFY_BELOW_THRESHOLD == "BELOW_THRESHOLD"
VERIFY_EXPIRED == "EXPIRED"
VERIFY_MALFORMED == "MALFORMED"
VERIFY_BLACKLISTED == "BLACKLISTED"

TETSUO_OK == "TETSUO_OK"
TETSUO_ERR_INVALID_PROOF == "TETSUO_ERR_INVALID_PROOF"
TETSUO_ERR_INVALID_PARAM == "TETSUO_ERR_INVALID_PARAM"

convert_result(r) ==
    CASE r = VERIFY_OK -> TETSUO_OK
      [] r = VERIFY_INVALID_PROOF -> TETSUO_ERR_INVALID_PROOF
      [] r = VERIFY_BELOW_THRESHOLD -> "TETSUO_ERR_BELOW_THRESHOLD"
      [] r = VERIFY_EXPIRED -> "TETSUO_ERR_EXPIRED"
      [] r = VERIFY_MALFORMED -> "TETSUO_ERR_MALFORMED"
      [] r = VERIFY_BLACKLISTED -> "TETSUO_ERR_BLACKLISTED"
      [] OTHER -> TETSUO_ERR_INVALID_PROOF

(***************************************************************************)
(* Wire proofs (verify.h proof_wire_t).  proof_data is kept as its four     *)
(* 64-byte quarters; a quarter is the point that decoding it as an affine   *)
(* G1 point (x, y, z = 1) gives.                                            *)
(***************************************************************************)
\* Times are counted in units of TimeUnit seconds (every time of the model is
\* a multiple of it), which keeps 2^32 seconds, the width of timestamp and
\* max_proof_age, representable: UINT32 is 2^32 seconds.
TimeUnit == 8
Sec(n) == n \div TimeUnit
UINT32 == Pow2(29)

Wire(ver, fl, ts, q0, q1) ==
    [type |-> 0, version |-> ver, flags |-> fl, timestamp |-> ts,
     proof_data |-> <<q0, q1, PointOff, PointOff>>]

\* a proof that parses, is fresh at time 10000 with age 3600 and carries
\* threshold 50 (flags 0x0132), and its one-field variations
GoodWire == Wire(1, 306, Sec(9000), PointAff(1), PointAff(2))

Wires ==
    { GoodWire,
      Wire(2, 306, Sec(9000), PointAff(1), PointAff(2)),
      Wire(1, 306, Sec(9000), PointOff, PointAff(2)),
      Wire(1, 306, Sec(9000), PointAff(1), PointOff),
      Wire(1, 306, Sec(5000), PointAff(1), PointAff(2)),
      Wire(1, 30, Sec(9000), PointAff(1), PointAff(2)) }

\* the proofs handed to tetsuo_verify: those, and one that is both old and
\* of a low threshold
VerifyWires == Wires \cup {Wire(1, 30, Sec(5000), PointAff(1), PointAff(2))}

\* a proof_t slot of freshly mapped arena memory (all bytes zero)
ZeroProof ==
    [type |-> 0, timestamp |-> 0, threshold |-> 0,
     proof_point_a |-> PointInf, proof_point_b |-> PointInf,
     proof_point_c |-> PointInf]

\* proof_parse: returns <<ok, out>>, out being the slot after the call
proof_parse(old, wire) ==
    IF wire.version # 1 THEN <<FALSE, old>>
    ELSE LET out == [type |-> wire.type,
                     timestamp |-> wire.timestamp,
                     threshold |-> wire.flags % 256,
                     proof_point_a |-> wire.proof_data[1],
                     proof_point_b |-> PointInf,
                     proof_point_c |-> wire.proof_data[2]]
         IN IF ~point_is_infinity(out.proof_point_a)
               /\ ~point_is_on_curve(out.proof_point_a) THEN <<FALSE, out>>
            ELSE IF ~point_is_infinity(out.proof_point_c)
               /\ ~point_is_on_curve(out.proof_point_c) THEN <<FALSE, out>>
            ELSE <<TRUE, out>>

\* the expiry test of verify_proof_ex and batch_verify: the sum of the two
\* uint32_t operands is a uint32_t, compared with the uint64_t current_time
ProofExpired(c, proof) ==
    /\ c.current_time > 0
    /\ (proof.timestamp + c.max_proof_age) % UINT32 < c.current_time

\* verify_proof_ex accepting when the pairing check is unavailable
verify_proof_ex_fail_open(c, pairing, proof, g16) ==
    IF ProofExpired(c, proof) THEN <<VERIFY_EXPIRED, FALSE>>
    ELSE IF proof.threshold < c.min_threshold THEN <<VERIFY_BELOW_THRESHOLD, FALSE>>
    ELSE IF point_is_infinity(proof.proof_point_a) THEN <<VERIFY_INVALID_PROOF, FALSE>>
    ELSE IF ~point_is_on_curve(proof.proof_point_a) THEN <<VERIFY_INVALID_PROOF, FALSE>>
    ELSE IF point_is_infinity(proof.proof_point_c) THEN <<VERIFY_INVALID_PROOF, FALSE>>
    ELSE IF ~point_is_on_curve(proof.proof_point_c) THEN <<VERIFY_INVALID_PROOF, FALSE>>
    ELSE IF pairing /\ c.groth16_vk
         THEN IF ~g16 THEN <<VERIFY_INVALID_PROOF, TRUE>>
              ELSE <<VERIFY_OK, TRUE>>
    ELSE <<VERIFY_OK, FALSE>>

\* verify_proof_ex testing the threshold only after the pairing check
verify_proof_ex_threshold_late(c, pairing, proof, g16) ==
    IF ProofExpired(c, proof) THEN <<VERIFY_EXPIRED, FALSE>>
    ELSE IF point_is_infinity(proof.proof_point_a) THEN <<VERIFY_INVALID_PROOF, FALSE>>
    ELSE IF ~point_is_on_curve(proof.proof_point_a) THEN <<VERIFY_INVALID_PROOF, FALSE>>
    ELSE IF point_is_infinity(proof.proof_point_c) THEN <<VERIFY_INVALID_PROOF, FALSE>>
    ELSE IF ~point_is_on_curve(proof.proof_point_c) THEN <<VERIFY_INVALID_PROOF, FALSE>>
    ELSE IF pairing /\ c.groth16_vk /\ ~g16 THEN <<VERIFY_INVALID_PROOF, TRUE>>
    ELSE IF proof.threshold < c.min_threshold
         THEN <<VERIFY_BELOW_THRESHOLD, pairing /\ c.groth16_vk>>
    ELSE IF pairing /\ c.groth16_vk THEN <<VERIFY_OK, TRUE>>
    ELSE <<VERIFY_INVALID_PROOF, FALSE>>

\* verify_proof_ex testing the threshold before the expiry
verify_proof_ex_threshold_first(c, pairing, proof, g16) ==
    IF proof.threshold < c.min_threshold THEN <<VERIFY_BELOW_THRESHOLD, FALSE>>
    ELSE IF ProofExpired(c, proof) THEN <<VERIFY_EXPIRED, FALSE>>
    ELSE IF point_is_infinity(proof.proof_point_a) THEN <<VERIFY_INVALID_PROOF, FALSE>>
    ELSE IF ~point_is_on_curve(proof.proof_point_a) THEN <<VERIFY_INVALID_PROOF, FALSE>>
    ELSE IF point_is_infinity(proof.proof_point_c) THEN <<VERIFY_INVALID_PROOF, FALSE>>
    ELSE IF ~point_is_on_curve(proof.proof_point_c) THEN <<VERIFY_INVALID_PROOF, FALSE>>
    ELSE IF pairing /\ c.groth16_vk
         THEN IF ~g16 THEN <<VERIFY_INVALID_PROOF, TRUE>>
              ELSE <<VERIFY_OK, TRUE>>
    ELSE <<VERIFY_INVALID_PROOF, FALSE>>

\* verify_proof_ex.  pairing: pairing_is_initialized(); g16: the value
\* returned by groth16_verify if it is called.  Returns <<result, called>>,
\* called telling whether groth16_verify was entered.
verify_proof_ex(c, pairing, proof, g16) ==
    IF ProofExpired(c, proof) THEN <<VERIFY_EXPIRED, FALSE>>
    ELSE IF proof.threshold < c.min_threshold THEN <<VERIFY_BELOW_THRESHOLD, FALSE>>
    ELSE IF point_is_infinity(proof.proof_point_a) THEN <<VERIFY_INVALID_PROOF, FALSE>>
    ELSE IF ~point_is_on_curve(proof.proof_point_a) THEN <<VERIFY_INVALID_PROOF, FALSE>>
    ELSE IF point_is_infinity(proof.proof_point_c) THEN <<VERIFY_INVALID_PROOF, FALSE>>
    ELSE IF ~point_is_on_curve(proof.proof_point_c) THEN <<VERIFY_INVALID_PROOF, FALSE>>
    ELSE IF pairing /\ c.groth16_vk
         THEN IF ~g16 THEN <<VERIFY_INVALID_PROOF, TRUE>>
              ELSE <<VERIFY_OK, TRUE>>
    ELSE <<VERIFY_INVALID_PROOF, FALSE>>

\* verify_proof
verify_proof(c, pairing, wire, g16) ==
    LET parsed == proof_parse(ZeroProof, wire)
    IN IF ~parsed[1] THEN <<VERIFY_MALFORMED, FALSE>>
       ELSE verify_proof_ex(c, pairing, parsed[2], g16)

(***************************************************************************)
(* State of the library as seen through api.c                               *)
(***************************************************************************)
VARIABLES
    g_initialized,          \* api.c g_initialized
    g_pairing_initialized,  \* pairing.c g_pairing_initialized
    ctx,                    \* the tetsuo_ctx_t / verify_ctx_t of the host
    batch,                  \* the tetsuo_batch_t / batch_ctx_t of the host
    ret,                    \* the last call: its name, inputs and outputs
    groth16_vk,             \* a groth16_vk_t of the host (pairing.h)
    fr_mask,                \* how the linked library reduces a scalar >= r
    groth16_proofs,         \* the proofs the host has collected for a batch
    groth16_ret,            \* the last groth16_verify(_batch) call
    init_pc,                \* per thread: where it is in pairing_init
    init_ret,               \* per thread: what its last pairing_init returned
    init_seen,              \* per thread: its last pairing_is_initialized()
    mcl,                    \* the linked library: runs and state of mclBn_init
    g_poseidon_initialized, \* verify.c g_poseidon_initialized
    g_poseidon_rc,          \* verify.c g_poseidon_rc
    hash_st,                \* a poseidon_hash call, round by round
    nul,                    \* per thread: its compute_nullifier call
    arena,                  \* arena.h arena_t with its chain of blocks
    arena_live,             \* the regions returned and not yet released
    arena_cps,              \* the checkpoints the user holds, last taken last
    arena_ret,              \* the last arena call and what it returned
    arena_rc,               \* the arena of the context: ref_count and releases
    excl,                   \* the last tetsuo_verify_exclusion call
    stats,                  \* tetsuo.h tetsuo_stats_t of the context, and the calls made
    fn                      \* the last call of a function of field.c, verify.c or api.c

api_vars == <<g_initialized, ctx, batch, ret>>

pairing_vars == <<groth16_vk, fr_mask, groth16_proofs, groth16_ret>>

init_vars == <<init_pc, init_ret, init_seen, mcl>>

\* the variables the calls of api.c, verify.c and the Groth16 layer leave alone
poseidon_vars == <<g_poseidon_initialized, g_poseidon_rc, hash_st, nul>>

arena_vars == <<arena, arena_live, arena_cps, arena_ret>>

ext_vars == <<init_vars, poseidon_vars, arena_vars, arena_rc, excl, stats, fn>>

vars == <<g_initialized, g_pairing_initialized, ctx, batch, ret, pairing_vars,
          ext_vars>>

NumThreads == 2
Threads == 1 .. NumThreads
MaxInitRuns == 2

NoMcl == [runs |-> 0, state |-> "none"]

InitThreads ==
    /\ init_pc = [t \in Threads |-> "idle"]
    /\ init_ret = [t \in Threads |-> "none"]
    /\ init_seen = [t \in Threads |-> "none"]
    /\ mcl = NoMcl

(***************************************************************************)
(* verify.c: Poseidon.  The round-constant table and the MDS matrix are     *)
(* scaled to the field of the model; the round structure is the source's.   *)
(***************************************************************************)
POSEIDON_T == 3
POSEIDON_R_F == 8
POSEIDON_R_P == 57
\* entries of g_poseidon_rc
POSEIDON_RC_LEN == 171
\* the locals num_rounds and full_rounds_half of poseidon_hash
num_rounds == 57
full_rounds_half == 4

\* POSEIDON_RC_HEX[i] as hex_to_field decodes it
POSEIDON_RC_HEX(i) == 1 + ((i * i + 3 * i) % (FIELD_MODULUS - 1))

POSEIDON_MDS ==
    <<<<2, 3, 1>>,
      <<3, 1, 2>>,
      <<1, 2, 3>>>>

field_sqr(a) == mont_reduce(a * a)

\* x -> x^5
sbox(x) == field_mul(field_sqr(field_sqr(x)), x)

MdsRow(j, state) ==
    field_add(field_add(field_add(0, field_mul(POSEIDON_MDS[j][1], state[1])),
                        field_mul(POSEIDON_MDS[j][2], state[2])),
              field_mul(POSEIDON_MDS[j][3], state[3]))

mds_mix(state) == <<MdsRow(1, state), MdsRow(2, state), MdsRow(3, state)>>

\* the table poseidon_init_constants leaves in g_poseidon_rc
PoseidonRcTable == [i \in 0 .. (POSEIDON_RC_LEN - 1) |-> field_to_mont(POSEIDON_RC_HEX(i))]

\* the state after the inputs are absorbed
PoseidonAbsorb(inputs) ==
    LET lane(j) == IF j <= Len(inputs) THEN field_add(0, inputs[j]) ELSE 0
    IN <<lane(1), lane(2), lane(3)>>

\* ARK of one round: the three constants from rc_idx on are added
PoseidonArk(state, rc, rc_idx) ==
    <<field_add(state[1], rc[rc_idx]),
      field_add(state[2], rc[rc_idx + 1]),
      field_add(state[3], rc[rc_idx + 2])>>

PoseidonFullRound(r) == r < full_rounds_half \/ r >= num_rounds - full_rounds_half

\* the S-box layer of round r
PoseidonSbox(state, r) ==
    IF PoseidonFullRound(r)
    THEN <<sbox(state[1]), sbox(state[2]), sbox(state[3])>>
    ELSE <<sbox(state[1]), state[2], state[3]>>

\* rounds r .. num_rounds - 1 of poseidon_hash over the table rc
RECURSIVE PoseidonRounds(_, _, _)
PoseidonRounds(state, rc, r) ==
    IF r >= num_rounds \/ Len(state) # POSEIDON_T THEN state
    ELSE PoseidonRounds(
             mds_mix(PoseidonSbox(PoseidonArk(state, rc, POSEIDON_T * r), r)),
             rc, r + 1)

\* poseidon_hash over the table rc
poseidon_hash(rc, inputs) == PoseidonRounds(PoseidonAbsorb(inputs), rc, 0)[1]

\* compute_nullifier: agent_pk as stored, the nonce put into Montgomery form
compute_nullifier(rc, agent_pk, nonce) ==
    poseidon_hash(rc, <<agent_pk, field_to_mont(nonce)>>)

\* inputs handed to poseidon_hash
PoseidonInputs == {<<1, 2>>, <<5>>, <<3, 7, 4>>}

NoHash ==
    [pc |-> "idle", inputs |-> <<>>, r |-> 0, rc_idx |-> 0,
     state |-> <<0, 0, 0>>, full |-> 0, partial |-> 0, out |-> 0]

(***************************************************************************)
(* arena.c.  Sizes are size_t values of SizeBits bits; a pointer into a     *)
(* block is the pair of the block and the offset in its data.               *)
(***************************************************************************)
SizeBits == 6
SizeMod == Pow2(SizeBits)
\* the page size of create_block and CACHE_LINE_SIZE, which is also
\* sizeof(arena_block_t), scaled to the size_t of the model
PageSize == 4
CACHE_LINE_SIZE == 1
\* the block_size handed to arena_create and the alignment of arena_alloc
ArenaBlockSize == 3
ArenaAlign == 2
\* blocks the system hands out before alloc_block fails
MaxBlocks == 3
MaxCheckpoints == 2
\* regions the user of the arena holds at a time
MaxLive == 3

\* (((x) + (align) - 1) & ~((align) - 1)) on size_t
ALIGN_UP(x, align) ==
    LET y == (x + align - 1) % SizeMod
    IN y - (y % align)

\* NULL as a block and as a pointer into a block: blocks count from 1
NullBlock == [id |-> 0, size |-> 0, used |-> 0]

NullPtr == [block |-> 0, off |-> 0]

\* create_block: NullBlock if alloc_block fails, else the block
create_block(data_size, id, avail) ==
    LET total == ALIGN_UP((CACHE_LINE_SIZE + data_size) % SizeMod, PageSize)
    IN IF total = 0 \/ ~avail THEN NullBlock
       ELSE [id |-> id, size |-> (total - CACHE_LINE_SIZE) % SizeMod, used |-> 0]

arena_create(block_size) ==
    [blocks |-> <<create_block(block_size, 1, TRUE)>>, current |-> 1,
     block_size |-> block_size, total_allocated |-> block_size, peak_usage |-> 0]

RECURSIVE UsedUpTo(_, _)
UsedUpTo(blocks, n) ==
    IF n = 0 THEN 0 ELSE (UsedUpTo(blocks, n - 1) + blocks[n].used) % SizeMod

\* arena_used: the used cursors from head to current
arena_used(a) == UsedUpTo(a.blocks, a.current)

\* arena_reset touching the current block only
arena_reset_current_only(a) ==
    [a EXCEPT !.blocks[a.current].used = 0, !.current = 1]

arena_reset(a) ==
    [a EXCEPT !.blocks = [i \in 1 .. Len(a.blocks) |->
                                 [a.blocks[i] EXCEPT !.used = 0]],
                  !.current = 1]

\* arena_alloc_aligned: [arena |-> the arena after the call,
\* ptr |-> NullPtr or the block and offset returned]
RECURSIVE arena_alloc_aligned(_, _, _)
arena_alloc_aligned(a, size, alignment) ==
    LET cur == a.current
        block == a.blocks[cur]
        aligned_pos == ALIGN_UP(block.used, alignment)
        required == (aligned_pos + size) % SizeMod
    IN IF required <= block.size
       THEN LET a1 == [a EXCEPT !.blocks[cur].used = required]
                total_used == arena_used(a1)
            IN [arena |-> IF total_used > a1.peak_usage
                          THEN [a1 EXCEPT !.peak_usage = total_used] ELSE a1,
                ptr |-> [block |-> block.id, off |-> aligned_pos]]
       ELSE LET new_size == IF size > a.block_size
                            THEN ALIGN_UP((size + CACHE_LINE_SIZE) % SizeMod, PageSize)
                            ELSE a.block_size
                n == Len(a.blocks)
            IN IF cur < n /\ a.blocks[cur + 1].size >= size
               THEN arena_alloc_aligned(
                        [a EXCEPT !.current = cur + 1, !.blocks[cur + 1].used = 0],
                        size, alignment)
               ELSE LET new_block == create_block(new_size, n + 1, n < MaxBlocks)
                    IN IF new_block = NullBlock THEN [arena |-> a, ptr |-> NullPtr]
                       ELSE arena_alloc_aligned(
                                [a EXCEPT
                                    !.blocks = [i \in 1 .. (n + 1) |->
                                                   IF i <= cur THEN a.blocks[i]
                                                   ELSE IF i = cur + 1 THEN new_block
                                                   ELSE a.blocks[i - 1]],
                                    !.current = cur + 1,
                                    !.total_allocated = (@ + new_size) % SizeMod],
                                size, alignment)

arena_alloc(a, size) == arena_alloc_aligned(a, size, ArenaAlign)

\* the place in the chain of the block a checkpoint points to
BlockIndex(a, id) == CHOOSE i \in 1 .. Len(a.blocks) : a.blocks[i].id = id

arena_checkpoint(a) ==
    [block |-> a.blocks[a.current].id,
     position |-> a.blocks[a.current].used]

arena_restore(a, checkpoint) ==
    LET at == BlockIndex(a, checkpoint.block)
    IN [a EXCEPT
           !.blocks = [i \in 1 .. Len(a.blocks) |->
                          IF i > at THEN [a.blocks[i] EXCEPT !.used = 0]
                          ELSE IF i = at
                          THEN [a.blocks[i] EXCEPT !.used = checkpoint.position]
                          ELSE a.blocks[i]],
           !.current = at]

\* sizes handed to arena_alloc
AllocSizes == {1, 2, 5, SizeMod - 2}

NoArenaRet == [op |-> "none", ptr |-> NullPtr, cp |-> "none"]

\* an arena made by arena_create; nothing allocated, no checkpoint taken
InitArena ==
    /\ arena = arena_create(ArenaBlockSize)
    /\ arena_live = {}
    /\ arena_cps = <<>>
    /\ arena_ret = NoArenaRet

\* g_poseidon_rc is static storage: all zero before it is filled
NoNul == [pc |-> "idle", i |-> 0, agent_pk |-> 0, nonce |-> 0, rc |-> <<>>, out |-> "none"]

InitPoseidon ==
    /\ g_poseidon_initialized = FALSE
    /\ g_poseidon_rc = [i \in 0 .. (POSEIDON_RC_LEN - 1) |-> 0]
    /\ hash_st = NoHash
    /\ nul = [t \in Threads |-> NoNul]

\* the arena of the context: none before tetsuo_ctx_create, else the one
\* reference arena_create gives the context
NoArenaRc == [alive |-> FALSE, ref_count |-> 0, frees |-> 0, holders |-> {}]

CtxArenaRc == [alive |-> TRUE, ref_count |-> 1, frees |-> 0, holders |-> {}]

\* tetsuo_stats_t after the memset of tetsuo_ctx_create, with the tally of the
\* calls made on the context: accepted tetsuo_verify calls, tetsuo_batch_verify
\* calls, the proofs in those batches, and the proofs reported not OK.
\* followed: the counters are kept (the specifications about other
\* properties leave them at zero)
NoStats(followed) ==
    [followed |-> followed, total_verified |-> 0, total_failed |-> 0,
     total_batches |-> 0, peak_memory_usage |-> 0,
     verify_calls |-> 0, batch_calls |-> 0, batch_proofs |-> 0, not_ok |-> 0]

\* no function call yet
NoFn == [op |-> "none", in |-> <<>>, out |-> <<>>]

InitArenaRc == arena_rc = IF ctx.exists THEN CtxArenaRc ELSE NoArenaRc

InitOthers ==
    /\ InitThreads
    /\ InitPoseidon
    /\ InitArena
    /\ InitArenaRc
    /\ excl = [op |-> "none", root |-> <<>>, leaf |-> <<>>,
               proof |-> [len |-> 0, data |-> <<>>], result |-> FALSE, levels |-> 0,
           reads |-> {}]
    /\ fn = NoFn

InitExt ==
    /\ InitOthers
    /\ stats = NoStats(FALSE)

(***************************************************************************)
(* pairing.c: G1, G2, GT.  A G1 or G2 point is a point record over its     *)
(* discrete logarithm, a GT element the logarithm of a pairing value.       *)
(***************************************************************************)
MaxProofs == 4
\* groth16_verify_batch verifies fewer proofs than this one by one
BatchMinProofs == 4

g1_is_on_curve(p) == p.kind # "off"
g1_is_in_subgroup(p) == p.kind # "off"
g2_is_on_curve(p) == p.kind # "off"
g2_is_in_subgroup(p) == p.kind # "off"

g1_add(a, b) ==
    IF a.kind = "off" \/ b.kind = "off" THEN PointOff
    ELSE GroupElem(a.v + b.v)

g1_neg(p) ==
    IF p.kind = "off" THEN PointOff ELSE GroupElem(GROUP_ORDER - p.v)

\* the number of bits a scalar >= r is cut to: bitLen(r) - 1
FrMaskBits == CHOOSE k \in 0 .. FieldBits :
                  Pow2(k) <= GROUP_ORDER /\ GROUP_ORDER < Pow2(k + 1)

\* mclBnFr_setLittleEndian on the limbs of a field_t: the limbs as they are
\* stored, taken as an integer; a value >= r is cut to FrMaskBits bits
\* (fr_mask) or reduced modulo r
FrFromLimbs(limbs) ==
    IF limbs < GROUP_ORDER THEN limbs
    ELSE IF fr_mask THEN limbs % Pow2(FrMaskBits)
    ELSE limbs % GROUP_ORDER

g1_scalar_mul(p, scalar) ==
    IF p.kind = "off" THEN PointOff
    ELSE GroupElem(p.v * FrFromLimbs(scalar))

\* mclBn_pairing
Pairing(p, q) == (p.v * q.v) % GROUP_ORDER

\* pairing_compute: <<return value, result>>
pairing_compute(p, q) ==
    IF ~g_pairing_initialized THEN <<FALSE, 0>> ELSE <<TRUE, Pairing(p, q)>>

RECURSIVE PairingProduct(_, _)
PairingProduct(ps, qs) ==
    IF ps = <<>> THEN 0
    ELSE (Pairing(Head(ps), Head(qs)) + PairingProduct(Tail(ps), Tail(qs)))
         % GROUP_ORDER

\* pairing_multi: <<return value, result>>; scratch_ok: its two scratch
\* arrays are allocated
pairing_multi(ps, qs, scratch_ok) ==
    IF ~g_pairing_initialized THEN <<FALSE, 0>>
    ELSE IF Len(ps) = 0 THEN <<FALSE, 0>>
    ELSE IF ~scratch_ok THEN <<FALSE, 0>>
    ELSE <<TRUE, PairingProduct(ps, qs)>>

gt_eq(a, b) == a = b

(***************************************************************************)
(* pairing.c: Groth16                                                       *)
(***************************************************************************)
NoVk ==
    [loaded |-> FALSE, alpha |-> PointInf, beta |-> PointInf,
     gamma |-> PointInf, delta |-> PointInf, ic |-> <<>>, alpha_beta |-> 0]

\* encoded verification keys: ok = every point deserializes
VkBlob(ok, alpha, beta, gamma, delta, ic) ==
    [ok |-> ok, alpha |-> PointAff(alpha), beta |-> PointAff(beta),
     gamma |-> PointAff(gamma), delta |-> PointAff(delta),
     ic |-> [j \in 1 .. Len(ic) |-> PointAff(ic[j])]]

VkBlobs ==
    {VkBlob(TRUE, 1, 1, 1, 1, <<1, 1>>),
     VkBlob(TRUE, 3, 2, 1, 2, <<1, 1>>),
     VkBlob(FALSE, 1, 1, 1, 1, <<1, 1>>)}

\* vk_load: <<return value, key>>
vk_load(vk, data, malloc_ok) ==
    IF ~data.ok THEN <<FALSE, vk>>
    ELSE IF ~malloc_ok THEN <<FALSE, vk>>
    ELSE <<TRUE, [loaded |-> TRUE, alpha |-> data.alpha, beta |-> data.beta,
                  gamma |-> data.gamma, delta |-> data.delta, ic |-> data.ic,
                  alpha_beta |-> pairing_compute(data.alpha, data.beta)[2]]>>

\* a proof with its public inputs (limbs of field_t values)
ProofIn(a, b, c, inputs) ==
    [proof |-> [a |-> a, b |-> b, c |-> c], inputs |-> inputs]

ProofSet ==
    {ProofIn(PointAff(2), PointAff(3), PointAff(2), <<2>>),
     ProofIn(PointAff(1), PointAff(1), PointAff(4), <<2>>),
     ProofIn(PointAff(1), PointAff(1), PointOff, <<2>>)}

\* IC[0] + sum of input[j] * IC[j+1] over the first n inputs
RECURSIVE IcAcc(_, _, _)
IcAcc(vk, public_inputs, n) ==
    IF n = 0 THEN vk.ic[1]
    ELSE g1_add(IcAcc(vk, public_inputs, n - 1),
                g1_scalar_mul(vk.ic[n + 1], public_inputs[n]))

ProofPointsValid(proof) ==
    /\ g1_is_on_curve(proof.a) /\ g1_is_in_subgroup(proof.a)
    /\ g2_is_on_curve(proof.b) /\ g2_is_in_subgroup(proof.b)
    /\ g1_is_on_curve(proof.c) /\ g1_is_in_subgroup(proof.c)

\* groth16_verify; num_inputs is Len(public_inputs)
groth16_verify(vk, proof, public_inputs, scratch_ok) ==
    IF ~g_pairing_initialized THEN FALSE
    ELSE IF Len(public_inputs) + 1 # Len(vk.ic) THEN FALSE
    ELSE IF ~ProofPointsValid(proof) THEN FALSE
    ELSE LET ic_acc == IcAcc(vk, public_inputs, Len(public_inputs))
             lhs == pairing_multi(<<proof.a, g1_neg(ic_acc), g1_neg(proof.c)>>,
                                  <<proof.b, vk.gamma, vk.delta>>, scratch_ok)
         IN IF ~lhs[1] THEN FALSE ELSE gt_eq(lhs[2], vk.alpha_beta)

\* random_scalar on the value read from the random source: the upper half
\* of the limbs is cleared, the rest goes to Montgomery form
random_scalar_limbs(raw) == raw % Pow2(FieldBits \div 2)

random_scalar(raw) == field_to_mont(random_scalar_limbs(raw))

RECURSIVE FieldSum(_)
FieldSum(xs) ==
    IF xs = <<>> THEN 0
    ELSE field_add(FieldSum(SubSeq(xs, 1, Len(xs) - 1)), xs[Len(xs)])

RECURSIVE G1Sum(_)
G1Sum(ps) ==
    IF ps = <<>> THEN PointInf
    ELSE g1_add(G1Sum(SubSeq(ps, 1, Len(ps) - 1)), ps[Len(ps)])

\* groth16_verify_batch on entries (proof, inputs).  raw[i]: what the random
\* source delivers for proof i; rng_ok: every read succeeds; scratch:
\* "arrays" if the four scratch arrays cannot be allocated, "multi" if those
\* of pairing_multi cannot, else "ok".
groth16_verify_batch(vk, entries, raw, rng_ok, scratch) ==
    LET n == Len(entries)
        sequential == \A i \in 1 .. n :
                          groth16_verify(vk, entries[i].proof, entries[i].inputs,
                                         scratch # "multi")
        randoms == [i \in 1 .. n |-> random_scalar(raw[i])]
        r_sum == FieldSum(randoms)
        scaled_A == [i \in 1 .. n |-> g1_scalar_mul(entries[i].proof.a, randoms[i])]
        ic_acc == G1Sum([i \in 1 .. n |->
                     g1_scalar_mul(IcAcc(vk, entries[i].inputs, Len(entries[i].inputs)),
                                   randoms[i])])
        c_acc == G1Sum([i \in 1 .. n |->
                     g1_scalar_mul(entries[i].proof.c, randoms[i])])
        lhs == pairing_multi(scaled_A \o <<g1_neg(ic_acc), g1_neg(c_acc)>>,
                             [i \in 1 .. n |-> entries[i].proof.b]
                                 \o <<vk.gamma, vk.delta>>,
                             scratch # "multi")
        rhs == pairing_compute(g1_scalar_mul(vk.alpha, r_sum), vk.beta)
    IN IF ~g_pairing_initialized THEN FALSE
       ELSE IF n = 0 THEN TRUE
       ELSE IF n < BatchMinProofs THEN sequential
       ELSE IF scratch = "arrays" THEN sequential
       ELSE IF \E i \in 1 .. n : ~ProofPointsValid(entries[i].proof) THEN FALSE
       ELSE IF ~rng_ok THEN FALSE
       ELSE IF ~lhs[1] THEN FALSE
       ELSE IF ~rhs[1] THEN FALSE
       ELSE gt_eq(lhs[2], rhs[2])

\* values the random source delivers
RawRandoms == {3, 5}
NoRaw == CHOOSE x \in RawRandoms : \A y \in RawRandoms : x <= y

GrothRet(op, entries, raw, rng_ok, scratch, result) ==
    [op |-> op, entries |-> entries, raw |-> raw, rng_ok |-> rng_ok,
     scratch |-> scratch, result |-> result]

NoGrothRet == GrothRet("none", <<>>, <<>>, TRUE, "ok", TRUE)

MaxCap == 2
TETSUO_MAX_BATCH_SIZE == 1024

NoCtx ==
    [exists |-> FALSE, current_time |-> 0, max_proof_age |-> 0,
     min_threshold |-> 0, vk_alpha |-> FALSE, groth16_vk |-> FALSE,
     cfg_vk |-> "none", cfg_no_limit |-> FALSE]

NoBatch ==
    [exists |-> FALSE, capacity |-> 0, count |-> 0, proofs |-> <<>>,
     results |-> <<>>, randoms |-> <<>>, added |-> <<>>]

NoWire == Wire(0, 0, 0, PointOff, PointOff)

\* the record left by a call; fields a call does not set keep these values.
\* Calls whose return value no property reads leave op "none".
Ret(op, val) ==
    [op |-> op, val |-> val, inner |-> TRUE, wire |-> NoWire,
     pairing_entered |-> FALSE, results |-> <<>>,
     aggregated |-> {}, reverified |-> {}]

\* tetsuo_config_t values handed to tetsuo_ctx_create (NoConfig: NULL)
NoConfig == [null |-> TRUE, max_proof_age |-> 0, min_threshold |-> 0, vk |-> "none"]

Configs ==
    {NoConfig} \cup
    [null : {FALSE}, max_proof_age : {0, Sec(3600), UINT32 - 1},
     min_threshold : {0, 50}, vk : {"none", "good"}]

Times == {0, Sec(10000)}
Thresholds == {0, 50}

\* rand_bytes as delivered by get_random_bytes
RandBytes == {<<1, 5>>, <<5, 2>>}
\* the buffer of a failed read is not used
NoRandBytes == <<1, 5>>

Init ==
    /\ g_initialized = FALSE
    /\ g_pairing_initialized = FALSE
    /\ ctx = NoCtx
    /\ batch = NoBatch
    /\ ret = Ret("none", TETSUO_OK)
    /\ groth16_vk = NoVk
    /\ fr_mask = TRUE
    /\ groth16_proofs = <<>>
    /\ groth16_ret = NoGrothRet
    /\ InitExt

(***************************************************************************)
(* api.c: library and context lifecycle                                     *)
(***************************************************************************)
tetsuo_init ==
    /\ g_initialized' = TRUE
    /\ ret' = Ret("none", TETSUO_OK)
    /\ UNCHANGED <<ext_vars, pairing_vars, g_pairing_initialized, ctx, batch>>

tetsuo_cleanup ==
    /\ g_initialized' = FALSE
    /\ ret' = Ret("none", TETSUO_OK)
    /\ UNCHANGED <<ext_vars, pairing_vars, g_pairing_initialized, ctx, batch>>

\* pairing.c pairing_init: ok is the outcome of mclBn_init (always a
\* failure in a build without the library)
pairing_init ==
    \E ok \in BOOLEAN :
        /\ g_pairing_initialized' = (g_pairing_initialized \/ ok)
        /\ ret' = [Ret("none", TETSUO_OK) EXCEPT
                      !.inner = (g_pairing_initialized \/ ok)]
        /\ groth16_ret' = NoGrothRet
        /\ UNCHANGED <<ext_vars, groth16_vk, fr_mask, groth16_proofs, g_initialized, ctx, batch>>

pairing_cleanup ==
    /\ g_pairing_initialized' = FALSE
    /\ ret' = Ret("none", TETSUO_OK)
    /\ groth16_ret' = NoGrothRet
    /\ UNCHANGED <<ext_vars, groth16_vk, fr_mask, groth16_proofs, g_initialized, ctx, batch>>

\* verify_ctx_load_vk on a blob: "good" is long enough and has all four
\* points on the curve.  Sets vk_alpha .. vk_delta, nothing else.
verify_ctx_load_vk(c, vk) == [c EXCEPT !.vk_alpha = TRUE]

\* tetsuo_ctx_create; alloc_ok: arena_create and the arena allocations succeed
tetsuo_ctx_create ==
    \E config \in Configs, alloc_ok \in BOOLEAN :
        /\ ~ctx.exists
        /\ g_initialized' = TRUE
        /\ IF ~alloc_ok
           THEN /\ ctx' = ctx
                /\ arena_rc' = arena_rc
                /\ stats' = stats
                /\ ret' = [Ret("tetsuo_ctx_create", TETSUO_OK) EXCEPT !.inner = FALSE]
           ELSE LET c0 == [NoCtx EXCEPT !.exists = TRUE, !.max_proof_age = Sec(3600),
                                        !.min_threshold = 0]
                    c1 == IF config.null THEN c0
                          ELSE [c0 EXCEPT
                                   !.max_proof_age =
                                       IF config.max_proof_age > 0
                                       THEN config.max_proof_age ELSE @,
                                   !.min_threshold = config.min_threshold,
                                   !.cfg_vk = config.vk,
                                   !.cfg_no_limit = (config.max_proof_age = 0)]
                    c2 == IF ~config.null /\ config.vk # "none"
                          THEN verify_ctx_load_vk(c1, config.vk) ELSE c1
                IN /\ ctx' = c2
                   /\ arena_rc' = CtxArenaRc
                   /\ stats' = NoStats(stats.followed)
                   /\ ret' = Ret("tetsuo_ctx_create", TETSUO_OK)
        /\ UNCHANGED <<excl, fn, init_vars, poseidon_vars, arena_vars, pairing_vars,
                       g_pairing_initialized, batch>>

\* arena_destroy: the blocks and the arena_t are freed, whatever ref_count is
arena_destroy(rc) == [rc EXCEPT !.alive = FALSE, !.frees = @ + 1]

\* tetsuo_ctx_destroy: arena_destroy(ctx->arena); the arena goes, and the
\* context and the batch allocated in it
tetsuo_ctx_destroy ==
    /\ ctx.exists
    /\ ctx' = NoCtx
    /\ batch' = NoBatch
    /\ arena_rc' = arena_destroy(arena_rc)
    /\ ret' = Ret("none", TETSUO_OK)
    /\ UNCHANGED <<excl, stats, fn, init_vars, poseidon_vars, arena_vars, pairing_vars,
                   g_initialized, g_pairing_initialized>>

tetsuo_ctx_set_time ==
    \E t \in Times :
        /\ IF ~ctx.exists
           THEN /\ ctx' = ctx
                /\ ret' = Ret("none", TETSUO_ERR_INVALID_PARAM)
           ELSE /\ ctx' = [ctx EXCEPT !.current_time = t]
                /\ ret' = Ret("none", TETSUO_OK)
        /\ UNCHANGED <<ext_vars, pairing_vars, g_initialized, g_pairing_initialized, batch>>

tetsuo_ctx_set_threshold ==
    \E t \in Thresholds :
        /\ IF ~ctx.exists
           THEN /\ ctx' = ctx
                /\ ret' = Ret("none", TETSUO_ERR_INVALID_PARAM)
           ELSE /\ ctx' = [ctx EXCEPT !.min_threshold = t]
                /\ ret' = Ret("none", TETSUO_OK)
        /\ UNCHANGED <<ext_vars, pairing_vars, g_initialized, g_pairing_initialized, batch>>

\* A user of verify.h and pairing.h stores a key obtained from vk_load in
\* the groth16_vk field of the context; no function of the library does.
set_groth16_vk ==
    /\ ctx.exists
    /\ g_pairing_initialized
    /\ ~ctx.groth16_vk
    /\ ctx' = [ctx EXCEPT !.groth16_vk = TRUE]
    /\ ret' = Ret("none", TETSUO_OK)
    /\ UNCHANGED <<ext_vars, pairing_vars, g_initialized, g_pairing_initialized, batch>>

\* the bound on the proofs counted in the statistics of one context
MaxCounted == 3

\* the bound on the batches counted in the statistics of one context
MaxBatches == 2

\* the values arena_used(ctx->arena) is seen to have
MaxMem == 1

MemUsed == IF stats.followed THEN 0 .. MaxMem ELSE {0}

\* the tail of tetsuo_verify: one more proof verified, one more failed if r
\* is not VERIFY_OK, the peak raised to mem if mem is above it
stats_verify(s, r, mem) ==
    [s EXCEPT !.total_verified = @ + 1,
              !.total_failed = IF r # VERIFY_OK THEN @ + 1 ELSE @,
              !.peak_memory_usage = IF mem > @ THEN mem ELSE @]

\* tetsuo_verify.  g16: what groth16_verify returns if it is reached; it is
\* called with b.x_im and b.y_im of the proof never written.  mem: what
\* arena_used(ctx->arena) returns.
tetsuo_verify ==
    \E wire \in VerifyWires, g16 \in BOOLEAN, mem \in MemUsed :
        /\ stats.followed => stats.total_verified < MaxCounted
        /\ IF ~ctx.exists
           THEN /\ ret' = Ret("tetsuo_verify", TETSUO_ERR_INVALID_PARAM)
                /\ stats' = stats
           ELSE LET r == verify_proof(ctx, g_pairing_initialized, wire, g16)
                IN /\ ret' = [Ret("tetsuo_verify", convert_result(r[1])) EXCEPT
                                 !.wire = wire, !.pairing_entered = r[2]]
                   /\ stats' =
                          IF ~stats.followed THEN stats
                          ELSE [stats_verify(stats, r[1], mem) EXCEPT
                                   !.verify_calls = @ + 1,
                                   !.not_ok = IF convert_result(r[1]) # TETSUO_OK
                                              THEN @ + 1 ELSE @]
        /\ UNCHANGED <<excl, fn, init_vars, poseidon_vars, arena_vars, arena_rc,
                       pairing_vars, g_initialized, g_pairing_initialized, ctx, batch>>

(***************************************************************************)
(* verify.c / api.c: batches                                                *)
(***************************************************************************)
\* batch_create.  The arrays come from arena memory that was never used:
\* every byte is zero, so results hold VERIFY_OK (= 0).
\* batch_create without the upper limit on the capacity
batch_create_no_max(capacity) ==
    IF capacity = 0 THEN NoBatch
    ELSE [exists |-> TRUE, capacity |-> capacity, count |-> 0,
          proofs |-> [i \in 1 .. capacity |-> ZeroProof],
          results |-> [i \in 1 .. capacity |-> VERIFY_OK],
          randoms |-> [i \in 1 .. capacity |-> 0],
          added |-> [i \in 1 .. capacity |-> "none"]]

\* NoBatch: NULL is returned
batch_create(capacity) ==
    IF capacity = 0 THEN NoBatch
    ELSE IF capacity > TETSUO_MAX_BATCH_SIZE THEN NoBatch
    ELSE [exists |-> TRUE, capacity |-> capacity, count |-> 0,
          proofs |-> [i \in 1 .. capacity |-> ZeroProof],
          results |-> [i \in 1 .. capacity |-> VERIFY_OK],
          randoms |-> [i \in 1 .. capacity |-> 0],
          added |-> [i \in 1 .. capacity |-> "none"]]

tetsuo_batch_create ==
    \E capacity \in (0 .. MaxCap) \cup {TETSUO_MAX_BATCH_SIZE + 1} :
        /\ IF ~ctx.exists \/ capacity = 0
           THEN /\ batch' = NoBatch
                /\ ret' = [Ret("tetsuo_batch_create", TETSUO_OK) EXCEPT !.inner = FALSE]
           ELSE /\ batch' = batch_create(capacity)
                /\ ret' = [Ret("tetsuo_batch_create", TETSUO_OK) EXCEPT
                              !.inner = batch_create(capacity).exists]
        /\ UNCHANGED <<ext_vars, pairing_vars, g_initialized, g_pairing_initialized, ctx>>

\* the random coefficient batch_add derives from rand_bytes: bytes 16..31
\* (the second half) are cleared, the rest is decoded big-endian
batch_add_scalar(rand_bytes) ==
    LET cleared == [i \in 1 .. FieldBytes |->
                       IF i > FieldBytes \div 2 THEN 0 ELSE rand_bytes[i]]
    IN field_from_bytes(cleared)

BatchCoefficient(rand_bytes) == field_to_mont(batch_add_scalar(rand_bytes))

\* batch_add: returns <<return value, batch after the call>>.
\* rng: FALSE if get_random_bytes fails, else the bytes it delivers.
\* added[i] records how the proof at index i came in: "malformed" (parse
\* failed), "rng" (RNG failed) or "ok".
batch_add(b, wire, rng_ok, rand_bytes) ==
    IF b.count >= b.capacity THEN <<FALSE, b>>
    ELSE IF b.count >= TETSUO_MAX_BATCH_SIZE THEN <<FALSE, b>>
    ELSE LET n == b.count + 1
             parsed == proof_parse(b.proofs[n], wire)
             b1 == [b EXCEPT !.proofs[n] = parsed[2]]
         IN IF ~parsed[1]
            THEN <<TRUE, [b1 EXCEPT !.results[n] = VERIFY_MALFORMED,
                                    !.added[n] = "malformed",
                                    !.count = n]>>
            ELSE IF ~rng_ok
            THEN <<FALSE, [b1 EXCEPT !.results[n] = VERIFY_MALFORMED,
                                     !.added[n] = "rng",
                                     !.count = n]>>
            ELSE <<TRUE, [b1 EXCEPT !.randoms[n] = BatchCoefficient(rand_bytes),
                                    !.added[n] = "ok",
                                    !.count = n]>>

tetsuo_batch_add ==
    \E wire \in Wires, rng_ok \in BOOLEAN, rand_bytes \in RandBytes :
        /\ rng_ok \/ rand_bytes = NoRandBytes
        /\ IF ~batch.exists
           THEN /\ batch' = batch
                /\ ret' = Ret("tetsuo_batch_add", TETSUO_ERR_INVALID_PARAM)
           ELSE LET r == batch_add(batch, wire, rng_ok, rand_bytes)
                IN /\ batch' = r[2]
                   /\ ret' = [Ret("tetsuo_batch_add", TETSUO_OK) EXCEPT
                                 !.inner = r[1]]
        /\ UNCHANGED <<ext_vars, pairing_vars, g_initialized, g_pairing_initialized, ctx>>

\* the per-proof policy loop of batch_verify
BatchPolicy(b, c) ==
    [i \in 1 .. b.capacity |->
        IF i > b.count THEN b.results[i]
        ELSE IF ProofExpired(c, b.proofs[i]) THEN VERIFY_EXPIRED
        ELSE IF b.proofs[i].threshold < c.min_threshold THEN VERIFY_BELOW_THRESHOLD
        ELSE VERIFY_OK]

\* every index, whatever its result
OkIndices_all(results, n) == [i \in 1 .. n |-> i]

\* the indices, in insertion order, whose result is VERIFY_OK
RECURSIVE OkIndices(_, _)
OkIndices(results, n) ==
    IF n = 0 THEN <<>>
    ELSE IF results[n] = VERIFY_OK
         THEN Append(OkIndices(results, n - 1), n)
         ELSE OkIndices(results, n - 1)

\* the sequential fallback of batch_verify: verify_proof_ex on every proof
\* whose result is VERIFY_OK.  g16[i]: what groth16_verify returns for i.
SequentialFallback(b, c, pairing, results, g16) ==
    [i \in 1 .. b.capacity |->
        IF i <= b.count /\ results[i] = VERIFY_OK
        THEN verify_proof_ex(c, pairing, b.proofs[i], g16[i])[1]
        ELSE results[i]]

\* the points and scalars batch_verify hands to multi_scalar_mul: those of
\* the proofs whose policy result is VERIFY_OK, in insertion order
BatchValid(b, c) == OkIndices(BatchPolicy(b, c), b.count)

BatchAccumulate(b, c) ==
    LET valid == BatchValid(b, c)
    IN multi_scalar_mul([j \in 1 .. Len(valid) |-> b.proofs[valid[j]].proof_point_a],
                        [j \in 1 .. Len(valid) |-> b.randoms[valid[j]]])

\* batch_verify.  arrays_ok: the scratch allocation of a_points and
\* a_scalars succeeds; acc_inf: point_is_infinity(&acc_a) after
\* multi_scalar_mul; g16[i]: what groth16_verify returns for proof i.
\* Returns <<return value, batch after, aggregated indices, re-verified
\* indices, groth16_verify entered>>.
batch_verify(b, c, pairing, arrays_ok, acc_inf, g16) ==
    IF b.count = 0 THEN <<TRUE, b, {}, {}, FALSE>>
    ELSE
    LET policy == BatchPolicy(b, c)
        valid == OkIndices(policy, b.count)
        valid_set == {valid[j] : j \in 1 .. Len(valid)}
        fallback == SequentialFallback(b, c, pairing, policy, g16)
        entered == \E i \in valid_set :
                      verify_proof_ex(c, pairing, b.proofs[i], g16[i])[2]
    IN IF Len(valid) = 0
       THEN <<TRUE, [b EXCEPT !.results = policy], {}, {}, FALSE>>
       ELSE IF ~arrays_ok
       THEN <<TRUE, [b EXCEPT !.results = fallback], {}, valid_set, entered>>
       ELSE IF acc_inf
       THEN <<TRUE, [b EXCEPT !.results = fallback], valid_set, valid_set, entered>>
       ELSE <<TRUE, [b EXCEPT !.results = policy], valid_set, {}, FALSE>>

\* what point_is_infinity can return for the accumulated point: a point
\* computed from off-curve coordinates may or may not have z = 0; when the
\* bucket allocation of multi_scalar_mul fails it returns infinity
AccInfinity(acc_a, buckets_ok, valid_count) ==
    IF ~buckets_ok /\ valid_count >= 2 THEN {TRUE}
    ELSE IF acc_a.kind = "off" THEN BOOLEAN
    ELSE {point_is_infinity(acc_a)}

\* the number of the first count results that are not VERIFY_OK
RECURSIVE CountFailed(_, _)
CountFailed(results, count) ==
    IF count = 0 THEN 0
    ELSE CountFailed(results, count - 1) +
         (IF results[count] # VERIFY_OK THEN 1 ELSE 0)

\* the tail of tetsuo_batch_verify counting a batch with a failure once
stats_batch_verify_once(s, b, mem) ==
    [s EXCEPT !.total_batches = @ + 1,
              !.total_verified = @ + b.count,
              !.total_failed = IF CountFailed(b.results, b.count) > 0
                               THEN @ + 1 ELSE @,
              !.peak_memory_usage = IF mem > @ THEN mem ELSE @]

\* the tail of tetsuo_batch_verify on batch b after batch_verify: one more
\* batch, count more proofs verified, one more failed for each result that
\* is not VERIFY_OK, the peak raised to mem if mem is above it
stats_batch_verify(s, b, mem) ==
    [s EXCEPT !.total_batches = @ + 1,
              !.total_verified = @ + b.count,
              !.total_failed = @ + CountFailed(b.results, b.count),
              !.peak_memory_usage = IF mem > @ THEN mem ELSE @]

\* tetsuo_batch_verify.  mem: what arena_used(batch->parent->arena) returns.
tetsuo_batch_verify ==
    IF ~batch.exists
    THEN /\ ret' = Ret("tetsuo_batch_verify", TETSUO_ERR_INVALID_PARAM)
         /\ UNCHANGED <<ext_vars, pairing_vars, g_initialized, g_pairing_initialized, ctx, batch>>
    ELSE LET acc_a == BatchAccumulate(batch, ctx)
             valid_count == Len(BatchValid(batch, ctx))
         IN \E arrays_ok \in BOOLEAN, buckets_ok \in BOOLEAN,
               g16 \in [1 .. batch.capacity -> BOOLEAN], mem \in MemUsed :
            \E acc_inf \in AccInfinity(acc_a, buckets_ok, valid_count) :
                /\ stats.followed =>
                       /\ stats.total_verified + batch.count <= MaxCounted
                       /\ stats.total_batches < MaxBatches
                /\ (\E i \in 1 .. batch.capacity : g16[i]) =>
                       (g_pairing_initialized /\ ctx.groth16_vk)
                /\ ~buckets_ok => arrays_ok
                /\ LET r == batch_verify(batch, ctx, g_pairing_initialized,
                                         arrays_ok, acc_inf, g16)
                   IN /\ batch' = r[2]
                      /\ ret' = [Ret("tetsuo_batch_verify",
                                     IF r[1] THEN TETSUO_OK
                                     ELSE TETSUO_ERR_INVALID_PROOF) EXCEPT
                                    !.inner = r[1],
                                    !.aggregated = r[3],
                                    !.reverified = r[4],
                                    !.pairing_entered = r[5]]
                      /\ stats' =
                             IF ~stats.followed THEN stats
                             ELSE [stats_batch_verify(stats, r[2], mem) EXCEPT
                                      !.batch_calls = @ + 1,
                                      !.batch_proofs = @ + batch.count,
                                      !.not_ok = @ + Cardinality(
                                          {i \in 1 .. batch.count :
                                              convert_result(r[2].results[i]) # TETSUO_OK})]
                /\ UNCHANGED <<excl, fn, init_vars, poseidon_vars, arena_vars, arena_rc,
                               pairing_vars, g_initialized, g_pairing_initialized, ctx>>

\* tetsuo_batch_get_results
tetsuo_batch_get_results ==
    /\ batch.exists
    /\ ret' = [Ret("tetsuo_batch_get_results", TETSUO_OK) EXCEPT
                  !.results = [i \in 1 .. batch.count |->
                                  convert_result(batch.results[i])]]
    /\ UNCHANGED <<ext_vars, pairing_vars, g_initialized, g_pairing_initialized, ctx, batch>>

\* tetsuo_batch_reset / batch_reset
tetsuo_batch_reset ==
    /\ batch.exists
    /\ batch' = [batch EXCEPT !.count = 0,
                              !.added = [i \in 1 .. batch.capacity |-> "none"]]
    /\ ret' = Ret("tetsuo_batch_reset", TETSUO_OK)
    /\ UNCHANGED <<ext_vars, pairing_vars, g_initialized, g_pairing_initialized, ctx>>

(***************************************************************************)
(* pairing.c: a user of pairing.h with one verification key                 *)
(***************************************************************************)
\* vk_load into a fresh key, the pairing back-end being initialized
vk_load_call ==
    \E data \in VkBlobs, malloc_ok \in BOOLEAN :
        /\ g_pairing_initialized
        /\ ~groth16_vk.loaded
        /\ malloc_ok \/ ~data.ok
        /\ groth16_vk' = vk_load(groth16_vk, data, malloc_ok)[2]
        /\ groth16_ret' = NoGrothRet
        /\ UNCHANGED <<ext_vars, g_initialized, g_pairing_initialized, ctx, batch, ret, fr_mask,
                   groth16_proofs>>

vk_free ==
    /\ groth16_vk.loaded
    /\ groth16_vk' = NoVk
    /\ groth16_ret' = NoGrothRet
    /\ UNCHANGED <<ext_vars, g_initialized, g_pairing_initialized, ctx, batch, ret, fr_mask,
                   groth16_proofs>>

groth16_verify_call ==
    \E e \in ProofSet, scratch_ok \in BOOLEAN :
        /\ groth16_vk.loaded
        /\ groth16_ret' =
               GrothRet("groth16_verify", <<e>>, <<>>, TRUE,
                        IF scratch_ok THEN "ok" ELSE "multi",
                        groth16_verify(groth16_vk, e.proof, e.inputs, scratch_ok))
        /\ UNCHANGED <<ext_vars, g_initialized, g_pairing_initialized, ctx, batch, ret,
                       groth16_vk, fr_mask, groth16_proofs>>

\* the host puts one more proof into the array it will hand over
host_add_proof ==
    \E e \in ProofSet :
        /\ Len(groth16_proofs) < MaxProofs
        /\ groth16_proofs' = Append(groth16_proofs, e)
        /\ groth16_ret' = NoGrothRet
        /\ UNCHANGED <<ext_vars, g_initialized, g_pairing_initialized, ctx, batch, ret,
                       groth16_vk, fr_mask>>

groth16_verify_batch_call ==
    LET n == Len(groth16_proofs)
        entries == groth16_proofs
    IN  \E raw \in [1 .. n -> RawRandoms],
           rng_ok \in BOOLEAN, scratch \in {"ok", "arrays", "multi"} :
            /\ groth16_vk.loaded
            /\ (n < BatchMinProofs \/ scratch = "arrays" \/ ~rng_ok) =>
                   \A i \in 1 .. n : raw[i] = NoRaw
            /\ (n < BatchMinProofs \/ scratch = "arrays") => rng_ok
            /\ groth16_ret' =
                   GrothRet("groth16_verify_batch", entries, raw, rng_ok, scratch,
                            groth16_verify_batch(groth16_vk, entries, raw,
                                                 rng_ok, scratch))
            /\ UNCHANGED <<ext_vars, g_initialized, g_pairing_initialized, ctx, batch, ret,
                           groth16_vk, fr_mask, groth16_proofs>>

\* The library with one context, single-proof verification
Next ==
    \/ tetsuo_init
    \/ tetsuo_cleanup
    \/ pairing_init
    \/ pairing_cleanup
    \/ tetsuo_ctx_create
    \/ tetsuo_ctx_destroy
    \/ tetsuo_ctx_set_time
    \/ tetsuo_ctx_set_threshold
    \/ set_groth16_vk
    \/ tetsuo_verify

Spec == Init /\ [][Next]_vars

\* Batches on a context made by tetsuo_ctx_create(NULL)
InitBatch ==
    /\ g_initialized = TRUE
    /\ g_pairing_initialized = FALSE
    /\ ctx = [NoCtx EXCEPT !.exists = TRUE, !.max_proof_age = Sec(3600)]
    /\ batch = NoBatch
    /\ ret = Ret("tetsuo_ctx_create", TETSUO_OK)
    /\ groth16_vk = NoVk
    /\ fr_mask = TRUE
    /\ groth16_proofs = <<>>
    /\ groth16_ret = NoGrothRet
    /\ InitExt

NextBatch ==
    \/ pairing_init
    \/ tetsuo_ctx_set_time
    \/ tetsuo_ctx_set_threshold
    \/ set_groth16_vk
    \/ tetsuo_batch_create
    \/ tetsuo_batch_add
    \/ tetsuo_batch_verify
    \/ tetsuo_batch_get_results

SpecBatch == InitBatch /\ [][NextBatch]_vars

\* Batches that are reset and filled again, the policy of the context fixed
NextBatchReset ==
    \/ tetsuo_batch_create
    \/ tetsuo_batch_add
    \/ tetsuo_batch_verify
    \/ tetsuo_batch_reset
    \/ tetsuo_batch_get_results

SpecBatchReset == InitBatch /\ [][NextBatchReset]_vars

\* The Groth16 layer with one verification key
InitGroth16 ==
    /\ g_initialized = FALSE
    /\ g_pairing_initialized = FALSE
    /\ ctx = NoCtx
    /\ batch = NoBatch
    /\ ret = Ret("none", TETSUO_OK)
    /\ groth16_vk = NoVk
    /\ fr_mask \in BOOLEAN
    /\ groth16_proofs = <<>>
    /\ groth16_ret = NoGrothRet
    /\ InitExt

NextGroth16 ==
    \/ pairing_init
    \/ pairing_cleanup
    \/ vk_load_call
    \/ vk_free
    \/ host_add_proof
    \/ groth16_verify_call
    \/ groth16_verify_batch_call

SpecGroth16 == InitGroth16 /\ [][NextGroth16]_vars

(***************************************************************************)
(* api.c: the statistics of a context over single proofs and batches       *)
(***************************************************************************)
\* the batches of two proofs the host has filled before the first call counted
StatsBatches ==
    { batch_add(batch_add(batch_create(2), w1, TRUE, NoRandBytes)[2],
                w2, TRUE, NoRandBytes)[2] : w1 \in Wires, w2 \in Wires }

\* A context made by tetsuo_ctx_create(NULL) and a batch filled in it
InitStats ==
    /\ g_initialized = TRUE
    /\ g_pairing_initialized = FALSE
    /\ ctx = [NoCtx EXCEPT !.exists = TRUE, !.max_proof_age = Sec(3600)]
    /\ batch \in StatsBatches
    /\ ret = Ret("tetsuo_batch_add", TETSUO_OK)
    /\ groth16_vk = NoVk
    /\ fr_mask = TRUE
    /\ groth16_proofs = <<>>
    /\ groth16_ret = NoGrothRet
    /\ InitOthers
    /\ stats = NoStats(TRUE)

NextStats ==
    \/ tetsuo_ctx_create
    \/ tetsuo_ctx_destroy
    \/ tetsuo_verify
    \/ tetsuo_batch_create
    \/ tetsuo_batch_verify

SpecStats == InitStats /\ [][NextStats]_vars

(***************************************************************************)
(* verify.c: poseidon_hash, one round step at a time.                       *)
(***************************************************************************)
\* poseidon_hash is entered: poseidon_init_constants, then the absorption
poseidon_hash_enter ==
    \E inputs \in PoseidonInputs :
        /\ hash_st.pc \in {"idle", "done"}
        /\ g_poseidon_initialized' = TRUE
        /\ g_poseidon_rc' = IF g_poseidon_initialized THEN g_poseidon_rc
                            ELSE PoseidonRcTable
        /\ hash_st' = [NoHash EXCEPT !.pc = "ark", !.inputs = inputs,
                                     !.state = PoseidonAbsorb(inputs)]
        /\ UNCHANGED <<excl, stats, fn, arena_vars, arena_rc, api_vars, g_pairing_initialized, pairing_vars, init_vars, nul>>

\* ARK of round r
poseidon_hash_ark ==
    /\ hash_st.pc = "ark"
    /\ hash_st' = [hash_st EXCEPT
                      !.pc = "sbox",
                      !.state = PoseidonArk(hash_st.state, g_poseidon_rc, hash_st.rc_idx),
                      !.rc_idx = hash_st.rc_idx + POSEIDON_T]
    /\ UNCHANGED <<excl, stats, fn, arena_vars, arena_rc, api_vars, g_pairing_initialized, pairing_vars, init_vars,
                   g_poseidon_initialized, g_poseidon_rc, nul>>

\* S-box layer of round r
poseidon_hash_sbox ==
    /\ hash_st.pc = "sbox"
    /\ hash_st' = [hash_st EXCEPT
                      !.pc = "mds",
                      !.state = PoseidonSbox(hash_st.state, hash_st.r),
                      !.full = IF PoseidonFullRound(hash_st.r) THEN @ + 1 ELSE @,
                      !.partial = IF PoseidonFullRound(hash_st.r) THEN @ ELSE @ + 1]
    /\ UNCHANGED <<excl, stats, fn, arena_vars, arena_rc, api_vars, g_pairing_initialized, pairing_vars, init_vars,
                   g_poseidon_initialized, g_poseidon_rc, nul>>

\* MDS mix of round r, the loop test, and after the last round the copy out
poseidon_hash_mds ==
    /\ hash_st.pc = "mds"
    /\ LET mixed == mds_mix(hash_st.state)
       IN hash_st' = [hash_st EXCEPT
                         !.pc = IF hash_st.r + 1 < num_rounds THEN "ark" ELSE "done",
                         !.state = mixed,
                         !.r = hash_st.r + 1,
                         !.out = IF hash_st.r + 1 < num_rounds THEN @ ELSE mixed[1]]
    /\ UNCHANGED <<excl, stats, fn, arena_vars, arena_rc, api_vars, g_pairing_initialized, pairing_vars, init_vars,
                   g_poseidon_initialized, g_poseidon_rc, nul>>

NextPoseidon ==
    \/ poseidon_hash_enter
    \/ poseidon_hash_ark
    \/ poseidon_hash_sbox
    \/ poseidon_hash_mds

\* poseidon_hash, one round step at a time
SpecPoseidon == Init /\ [][NextPoseidon]_vars

(***************************************************************************)
(* verify.c: compute_nullifier called from several threads.  The first      *)
(* CacheLen entries of g_poseidon_rc are written and read one at a time,    *)
(* the entries after them in one step.                                      *)
(***************************************************************************)
CacheLen == 2

\* (agent_pk, nonce) handed to compute_nullifier
NullifierInputs == {<<4, 1>>, <<4, 2>>}

\* compute_nullifier is called
nullifier_call(t) ==
    \E in \in NullifierInputs :
        /\ nul[t].pc = "idle"
        /\ nul' = [nul EXCEPT ![t] = [NoNul EXCEPT !.pc = "check",
                                                 !.agent_pk = in[1], !.nonce = in[2]]]
        /\ UNCHANGED <<excl, stats, fn, arena_vars, arena_rc, api_vars, g_pairing_initialized, pairing_vars, init_vars,
                       g_poseidon_initialized, g_poseidon_rc, hash_st>>

\* poseidon_init_constants: if (g_poseidon_initialized) return;
poseidon_init_check(t) ==
    /\ nul[t].pc = "check"
    /\ nul' = [nul EXCEPT ![t].pc = IF g_poseidon_initialized THEN "read" ELSE "hex",
                          ![t].i = 0]
    /\ UNCHANGED <<excl, stats, fn, arena_vars, arena_rc, api_vars, g_pairing_initialized, pairing_vars, init_vars,
                   g_poseidon_initialized, g_poseidon_rc, hash_st>>

\* poseidon_init_constants: hex_to_field(&g_poseidon_rc[i], POSEIDON_RC_HEX[i])
poseidon_init_hex(t) ==
    /\ nul[t].pc = "hex"
    /\ g_poseidon_rc' = [g_poseidon_rc EXCEPT ![nul[t].i] = POSEIDON_RC_HEX(nul[t].i)]
    /\ nul' = [nul EXCEPT ![t].pc = "mont"]
    /\ UNCHANGED <<excl, stats, fn, arena_vars, arena_rc, api_vars, g_pairing_initialized, pairing_vars, init_vars,
                   g_poseidon_initialized, hash_st>>

\* poseidon_init_constants: field_to_mont(&g_poseidon_rc[i], &g_poseidon_rc[i]);
\* after entry CacheLen - 1 the rest of the loop
poseidon_init_mont(t) ==
    /\ nul[t].pc = "mont"
    /\ LET i == nul[t].i
           last == i + 1 >= CacheLen
       IN /\ g_poseidon_rc' =
                 [k \in 0 .. (POSEIDON_RC_LEN - 1) |->
                     IF k = i THEN field_to_mont(g_poseidon_rc[i])
                     ELSE IF last /\ k > i THEN field_to_mont(POSEIDON_RC_HEX(k))
                     ELSE g_poseidon_rc[k]]
          /\ nul' = [nul EXCEPT ![t].pc = IF last THEN "flag" ELSE "hex",
                                ![t].i = i + 1]
    /\ UNCHANGED <<excl, stats, fn, arena_vars, arena_rc, api_vars, g_pairing_initialized, pairing_vars, init_vars,
                   g_poseidon_initialized, hash_st>>

\* poseidon_init_constants: g_poseidon_initialized = true
poseidon_init_flag(t) ==
    /\ nul[t].pc = "flag"
    /\ g_poseidon_initialized' = TRUE
    /\ nul' = [nul EXCEPT ![t].pc = "read", ![t].i = 0]
    /\ UNCHANGED <<excl, stats, fn, arena_vars, arena_rc, api_vars, g_pairing_initialized, pairing_vars, init_vars,
                   g_poseidon_rc, hash_st>>

\* poseidon_hash reads g_poseidon_rc[i]
poseidon_read(t) ==
    /\ nul[t].pc = "read"
    /\ nul[t].i < CacheLen
    /\ nul' = [nul EXCEPT ![t].rc = Append(@, g_poseidon_rc[nul[t].i]),
                          ![t].i = @ + 1]
    /\ UNCHANGED <<excl, stats, fn, arena_vars, arena_rc, api_vars, g_pairing_initialized, pairing_vars, init_vars,
                   g_poseidon_initialized, g_poseidon_rc, hash_st>>

\* poseidon_hash reads the rest of the table and compute_nullifier returns
nullifier_finish(t) ==
    /\ nul[t].pc = "read"
    /\ nul[t].i >= CacheLen
    /\ LET rc == [k \in 0 .. (POSEIDON_RC_LEN - 1) |->
                     IF k < CacheLen THEN nul[t].rc[k + 1] ELSE g_poseidon_rc[k]]
       IN nul' = [nul EXCEPT ![t].pc = "done",
                             ![t].out = compute_nullifier(rc, nul[t].agent_pk, nul[t].nonce)]
    /\ UNCHANGED <<excl, stats, fn, arena_vars, arena_rc, api_vars, g_pairing_initialized, pairing_vars, init_vars,
                   g_poseidon_initialized, g_poseidon_rc, hash_st>>

\* the caller drops the result
nullifier_forget(t) ==
    /\ nul[t].pc = "done"
    /\ nul' = [nul EXCEPT ![t] = NoNul]
    /\ UNCHANGED <<excl, stats, fn, arena_vars, arena_rc, api_vars, g_pairing_initialized, pairing_vars, init_vars,
                   g_poseidon_initialized, g_poseidon_rc, hash_st>>

NextNullifier ==
    \/ \E t \in Threads : nullifier_call(t)
    \/ \E t \in Threads : poseidon_init_check(t)
    \/ \E t \in Threads : poseidon_init_hex(t)
    \/ \E t \in Threads : poseidon_init_mont(t)
    \/ \E t \in Threads : poseidon_init_flag(t)
    \/ \E t \in Threads : poseidon_read(t)
    \/ \E t \in Threads : nullifier_finish(t)
    \/ \E t \in Threads : nullifier_forget(t)

\* compute_nullifier from two threads
SpecNullifier == Init /\ [][NextNullifier]_vars

(***************************************************************************)
(* arena.c: one arena, its user allocating, taking checkpoints and          *)
(* restoring them last-in first-out, and resetting.                         *)
(***************************************************************************)
\* arena_alloc; the region returned becomes live
arena_alloc_call ==
    \E size \in AllocSizes :
        LET res == arena_alloc(arena, size)
        IN /\ Cardinality(arena_live) < MaxLive
           /\ arena' = res.arena
           /\ arena_live' = IF res.ptr = NullPtr THEN arena_live
                            ELSE arena_live \cup
                                 {[block |-> res.ptr.block, lo |-> res.ptr.off,
                                   hi |-> res.ptr.off + size]}
           /\ arena_ret' = [NoArenaRet EXCEPT !.op = "arena_alloc", !.ptr = res.ptr]
           /\ UNCHANGED <<excl, stats, fn, api_vars, g_pairing_initialized, pairing_vars, init_vars,
                          poseidon_vars, arena_cps, arena_rc>>

\* arena_checkpoint; the caller keeps the checkpoint, and with it what
\* arena_used returned and the regions live at that time
arena_checkpoint_call ==
    /\ Len(arena_cps) < MaxCheckpoints
    /\ LET cp == [cp |-> arena_checkpoint(arena), used |-> arena_used(arena),
                  live |-> arena_live]
       IN /\ arena_cps' = Append(arena_cps, cp)
          /\ arena_ret' = [NoArenaRet EXCEPT !.op = "arena_checkpoint", !.cp = cp]
    /\ UNCHANGED <<excl, stats, fn, api_vars, g_pairing_initialized, pairing_vars, init_vars,
                   poseidon_vars, arena, arena_live, arena_rc>>

\* arena_restore of the checkpoint taken last
arena_restore_call ==
    /\ arena_cps # <<>>
    /\ LET cp == arena_cps[Len(arena_cps)]
       IN /\ arena' = arena_restore(arena, cp.cp)
          /\ arena_live' = cp.live
          /\ arena_cps' = SubSeq(arena_cps, 1, Len(arena_cps) - 1)
          /\ arena_ret' = [NoArenaRet EXCEPT !.op = "arena_restore", !.cp = cp]
    /\ UNCHANGED <<excl, stats, fn, api_vars, g_pairing_initialized, pairing_vars, init_vars,
                   poseidon_vars, arena_rc>>

\* arena_reset; every region and every checkpoint is given up
arena_reset_call ==
    /\ arena' = arena_reset(arena)
    /\ arena_live' = {}
    /\ arena_cps' = <<>>
    /\ arena_ret' = [NoArenaRet EXCEPT !.op = "arena_reset"]
    /\ UNCHANGED <<excl, stats, fn, api_vars, g_pairing_initialized, pairing_vars, init_vars,
                   poseidon_vars, arena_rc>>

NextArena ==
    \/ arena_alloc_call
    \/ arena_checkpoint_call
    \/ arena_restore_call
    \/ arena_reset_call

SpecArena == Init /\ [][NextArena]_vars

(***************************************************************************)
(* arena.c, api.c: the arena of a context shared with other holders.        *)
(***************************************************************************)
\* arena_ref by a thread that got ctx->arena from the living context
arena_ref(t) ==
    /\ ctx.exists
    /\ t \notin arena_rc.holders
    /\ arena_rc' = [arena_rc EXCEPT !.ref_count = @ + 1, !.holders = @ \cup {t}]
    /\ UNCHANGED <<excl, stats, fn, init_vars, poseidon_vars, arena_vars, pairing_vars,
                   g_initialized, g_pairing_initialized, ctx, batch, ret>>

\* arena_unref by a holder: atomic_fetch_sub, and arena_destroy if it
\* returned 1.  On an arena already freed the count read is whatever the
\* freed memory holds: the old count or anything else.
arena_unref(t) ==
    /\ t \in arena_rc.holders
    /\ \E old \in (IF arena_rc.alive THEN {arena_rc.ref_count}
                   ELSE {arena_rc.ref_count, 1}) :
           LET rc == [arena_rc EXCEPT !.ref_count = old - 1, !.holders = @ \ {t}]
           IN arena_rc' = IF old = 1 THEN arena_destroy(rc) ELSE rc
    /\ UNCHANGED <<excl, stats, fn, init_vars, poseidon_vars, arena_vars, pairing_vars,
                   g_initialized, g_pairing_initialized, ctx, batch, ret>>

NextArenaRef ==
    \/ tetsuo_ctx_create
    \/ tetsuo_ctx_set_time
    \/ tetsuo_ctx_destroy
    \/ \E t \in Threads : arena_ref(t)
    \/ \E t \in Threads : arena_unref(t)

SpecArenaRef == Init /\ [][NextArenaRef]_vars

(***************************************************************************)
(* verify.c, api.c: exclusion proofs.  A proof is proof_len bytes: levels   *)
(* of one direction byte and one sibling of FieldBytes bytes each, then     *)
(* FieldBytes more bytes.                                                   *)
(***************************************************************************)
\* the 256 levels a proof may have, scaled
ExclusionMaxDepth == 3

\* the 33 bytes of one level: direction and sibling
LevelBytes == 1 + FieldBytes

\* mont_reduce of the element itself: out of Montgomery form
field_from_mont(a) == mont_reduce(a)

\* integer to big-endian byte string
field_to_bytes(a) ==
    [i \in 1 .. FieldBytes |->
        (a \div Pow2(ByteBits * (FieldBytes - i))) % Pow2(ByteBits)]

\* proof_data[k], k counted from 0: the bytes of data, then zeros
ProofByte(proof, k) ==
    IF k < Len(proof.data) THEN proof.data[k + 1] ELSE 0

\* the loop of verify_exclusion_proof from level i on:
\* bad: a direction byte above 1 was met; levels: hashes computed;
\* reads: the indices of proof_data read so far
RECURSIVE ExclusionLoop(_, _, _, _, _)
ExclusionLoop(current, proof, i, depth, reads) ==
    IF i >= depth
    THEN [bad |-> FALSE, current |-> current, levels |-> i, reads |-> reads]
    ELSE LET direction == ProofByte(proof, i * LevelBytes)
             sibling == field_to_mont(field_from_bytes(
                            [k \in 1 .. FieldBytes |->
                                ProofByte(proof, i * LevelBytes + k)]))
             inputs == IF direction = 0 THEN <<current, sibling>>
                       ELSE <<sibling, current>>
         IN IF direction > 1
            THEN [bad |-> TRUE, current |-> current, levels |-> i,
                  reads |-> reads \cup {i * LevelBytes}]
            ELSE ExclusionLoop(poseidon_hash(PoseidonRcTable, inputs),
                               proof, i + 1, depth,
                               reads \cup (i * LevelBytes .. i * LevelBytes + FieldBytes))

\* verify_exclusion_proof accepting every direction byte
verify_exclusion_proof_any_direction(root, leaf, proof) ==
    LET depth == (proof.len - FieldBytes) \div LevelBytes
        clean == [proof EXCEPT !.data = [k \in 1 .. Len(proof.data) |->
                                            IF (k - 1) % LevelBytes = 0 /\ proof.data[k] > 1
                                            THEN 1 ELSE proof.data[k]]]
        end == ExclusionLoop(leaf, clean, 0, depth, {})
    IN IF proof.len < FieldBytes
          \/ proof.len > FieldBytes + ExclusionMaxDepth * LevelBytes
       THEN [result |-> FALSE, levels |-> 0, reads |-> {}]
       ELSE [result |-> field_to_bytes(field_from_mont(end.current)) = root,
             levels |-> end.levels, reads |-> end.reads]

\* verify_exclusion_proof taking one level more than proof_len / 33
verify_exclusion_proof_level_more(root, leaf, proof) ==
    LET depth == (proof.len \div LevelBytes) + 1
        end == ExclusionLoop(leaf, proof, 0, depth, {})
    IN IF proof.len < FieldBytes
          \/ proof.len > FieldBytes + ExclusionMaxDepth * LevelBytes
       THEN [result |-> FALSE, levels |-> 0, reads |-> {}]
       ELSE IF end.bad
       THEN [result |-> FALSE, levels |-> end.levels, reads |-> end.reads]
       ELSE [result |-> field_to_bytes(field_from_mont(end.current)) = root,
             levels |-> end.levels, reads |-> end.reads]

\* verify_exclusion_proof: [result |-> the value returned,
\* levels |-> the levels hashed, reads |-> the indices of proof_data read]
verify_exclusion_proof(root, leaf, proof) ==
    LET depth == (proof.len - FieldBytes) \div LevelBytes
        end == ExclusionLoop(leaf, proof, 0, depth, {})
    IN IF proof.len < FieldBytes
          \/ proof.len > FieldBytes + ExclusionMaxDepth * LevelBytes
       THEN [result |-> FALSE, levels |-> 0, reads |-> {}]
       ELSE IF end.bad
       THEN [result |-> FALSE, levels |-> end.levels, reads |-> end.reads]
       ELSE [result |-> field_to_bytes(field_from_mont(end.current)) = root,
             levels |-> end.levels, reads |-> end.reads]

\* roots, leaves and proofs handed to tetsuo_verify_exclusion
ExclusionRoots == {<<a, b>> : a \in {0, 1}, b \in ByteVals}

ExclusionLeaves == {<<0, 1>>, <<1, 3>>}

ExclusionData ==
    {<<>>,
     <<0, 0, 5>>,
     <<1, 1, 2, 0, 0, 3>>,
     <<0, 0, 5, 2, 0, 0>>,
     <<1, 0, 1, 1, 0, 2, 0, 0, 7>>,
     <<0, 0, 1, 1, 1, 1, 3, 0, 1>>}

ExclusionProofs ==
    {[len |-> n, data |-> d] :
        n \in 0 .. (FieldBytes + ExclusionMaxDepth * LevelBytes + LevelBytes),
        d \in ExclusionData}

NoExcl == [op |-> "none", root |-> <<>>, leaf |-> <<>>,
           proof |-> [len |-> 0, data |-> <<>>], result |-> FALSE, levels |-> 0,
           reads |-> {}]

\* tetsuo_verify_exclusion with non-NULL arguments
tetsuo_verify_exclusion ==
    \E root \in ExclusionRoots, leaf \in ExclusionLeaves, proof \in ExclusionProofs :
        LET leaf_field == field_to_mont(field_from_bytes(leaf))
            res == verify_exclusion_proof(root, leaf_field, proof)
        IN /\ excl.op = "none"
           /\ excl' = [op |-> "tetsuo_verify_exclusion", root |-> root, leaf |-> leaf,
                       proof |-> proof, result |-> res.result, levels |-> res.levels,
                       reads |-> res.reads]
           /\ UNCHANGED <<stats, fn, api_vars, g_pairing_initialized, pairing_vars, init_vars,
                          poseidon_vars, arena_vars, arena_rc>>

\* the caller takes the result
exclusion_forget ==
    /\ excl.op # "none"
    /\ excl' = NoExcl
    /\ UNCHANGED <<stats, fn, api_vars, g_pairing_initialized, pairing_vars, init_vars,
                   poseidon_vars, arena_vars, arena_rc>>

NextExclusion ==
    \/ tetsuo_verify_exclusion
    \/ exclusion_forget

SpecExclusion == Init /\ [][NextExclusion]_vars

(***************************************************************************)
(* pairing.c: pairing_init called from several threads.  A call is the      *)
(* compare-exchange, then mclBn_init, then on failure the store of false.   *)
(***************************************************************************)
\* the compare-exchange of pairing_init: a thread that finds the flag set
\* returns true, the thread that sets it goes on to mclBn_init
pairing_init_cas(t) ==
    /\ init_pc[t] = "idle"
    /\ mcl.runs < MaxInitRuns
    /\ IF g_pairing_initialized
       THEN /\ init_ret' = [init_ret EXCEPT ![t] = "true"]
            /\ UNCHANGED <<g_pairing_initialized, init_pc, mcl>>
       ELSE /\ g_pairing_initialized' = TRUE
            /\ init_pc' = [init_pc EXCEPT ![t] = "mcl"]
            /\ init_ret' = [init_ret EXCEPT ![t] = "none"]
            /\ mcl' = [runs |-> mcl.runs + 1, state |-> "running"]
    /\ UNCHANGED <<excl, stats, fn, arena_vars, arena_rc, poseidon_vars, api_vars, pairing_vars, init_seen>>

\* mclBn_init returns in the thread that called it
pairing_init_mcl(t) ==
    \E ok \in BOOLEAN :
        /\ init_pc[t] = "mcl"
        /\ IF ok
           THEN /\ mcl' = [mcl EXCEPT !.state = "ok"]
                /\ init_pc' = [init_pc EXCEPT ![t] = "idle"]
                /\ init_ret' = [init_ret EXCEPT ![t] = "true"]
           ELSE /\ mcl' = [mcl EXCEPT !.state = "failed"]
                /\ init_pc' = [init_pc EXCEPT ![t] = "failed"]
                /\ UNCHANGED init_ret
        /\ UNCHANGED <<excl, stats, fn, arena_vars, arena_rc, poseidon_vars, api_vars, g_pairing_initialized, pairing_vars, init_seen>>

\* after a failed mclBn_init: the store of false, and the return of false
pairing_init_store(t) ==
    /\ init_pc[t] = "failed"
    /\ g_pairing_initialized' = FALSE
    /\ init_pc' = [init_pc EXCEPT ![t] = "idle"]
    /\ init_ret' = [init_ret EXCEPT ![t] = "false"]
    /\ UNCHANGED <<excl, stats, fn, arena_vars, arena_rc, poseidon_vars, api_vars, pairing_vars, init_seen, mcl>>

\* pairing_is_initialized called by a thread that is not inside pairing_init
pairing_is_initialized(t) ==
    /\ init_pc[t] = "idle"
    /\ init_seen' = [init_seen EXCEPT ![t] =
                        IF g_pairing_initialized THEN "true" ELSE "false"]
    /\ UNCHANGED <<excl, stats, fn, arena_vars, arena_rc, poseidon_vars, api_vars, g_pairing_initialized, pairing_vars,
                   init_pc, init_ret, mcl>>

\* a thread drops what it was told, before it calls again
init_forget(t) ==
    /\ init_pc[t] = "idle"
    /\ init_ret[t] # "none" \/ init_seen[t] # "none"
    /\ init_ret' = [init_ret EXCEPT ![t] = "none"]
    /\ init_seen' = [init_seen EXCEPT ![t] = "none"]
    /\ UNCHANGED <<excl, stats, fn, arena_vars, arena_rc, poseidon_vars, api_vars, g_pairing_initialized, pairing_vars, init_pc, mcl>>

NextInit ==
    \/ \E t \in Threads : pairing_init_cas(t)
    \/ \E t \in Threads : pairing_init_mcl(t)
    \/ \E t \in Threads : pairing_init_store(t)
    \/ \E t \in Threads : pairing_is_initialized(t)
    \/ \E t \in Threads : init_forget(t)

\* pairing_init and pairing_is_initialized called from NumThreads threads
SpecInit == Init /\ [][NextInit]_vars

(***************************************************************************)
(* Properties                                                               *)
(***************************************************************************)
\* a wire proof that proof_parse accepts: version 1, A and C on the curve
WellFormedWire(w) ==
    /\ w.version = 1
    /\ w.proof_data[1].kind = "aff"
    /\ w.proof_data[2].kind = "aff"

WireThreshold(w) == w.flags % 256

\* the expiry test as verify_proof_ex makes it, on a wire proof
WireExpired(w) ==
    /\ ctx.current_time > 0
    /\ (w.timestamp + ctx.max_proof_age) % UINT32 < ctx.current_time

AfterVerify == ret.op = "tetsuo_verify" /\ ctx.exists

\* C1: when the pairing back-end is not initialized or the context has no
\* Groth16 key, tetsuo_verify never returns OK, and a well-formed proof
\* that passes the expiry and threshold checks gets INVALID_PROOF.
C1_FailClosedSingle ==
    (AfterVerify /\ (~g_pairing_initialized \/ ~ctx.groth16_vk)) =>
        /\ ret.val # TETSUO_OK
        /\ (/\ WellFormedWire(ret.wire)
            /\ ~WireExpired(ret.wire)
            /\ WireThreshold(ret.wire) >= ctx.min_threshold)
           => ret.val = TETSUO_ERR_INVALID_PROOF

C1_Witness ==
    /\ AfterVerify
    /\ g_pairing_initialized
    /\ ~ctx.groth16_vk
    /\ ret.wire = GoodWire
    /\ ret.val = TETSUO_ERR_INVALID_PROOF

\* C3 (as claimed): after tetsuo_ctx_create with a well-formed
\* verification-key blob in the config the context holds the parsed Groth16
\* key and the pairing back-end is initialized.
C3_KeyLoadedByCreate ==
    (ret.op = "tetsuo_ctx_create" /\ ret.inner /\ ctx.cfg_vk = "good") =>
        (ctx.groth16_vk /\ g_pairing_initialized)

\* C9 (as claimed): a well-formed proof is reported EXPIRED exactly when
\* current_time > 0 and timestamp + max_proof_age < current_time, the sum
\* not wrapping.
C9_ExpiryExact ==
    (AfterVerify /\ WellFormedWire(ret.wire)) =>
        ((ret.val = "TETSUO_ERR_EXPIRED") <=>
            (/\ ctx.current_time > 0
             /\ ret.wire.timestamp + ctx.max_proof_age < ctx.current_time))

\* C10: a well-formed, non-expired proof whose threshold is below
\* min_threshold gets BELOW_THRESHOLD and groth16_verify is not entered.
C10_ThresholdBeforePairing ==
    (/\ AfterVerify
     /\ WellFormedWire(ret.wire)
     /\ ~WireExpired(ret.wire)
     /\ WireThreshold(ret.wire) < ctx.min_threshold)
    => (ret.val = "TETSUO_ERR_BELOW_THRESHOLD" /\ ~ret.pairing_entered)

C10_Witness ==
    /\ AfterVerify
    /\ g_pairing_initialized
    /\ ctx.groth16_vk
    /\ ctx.min_threshold = 50
    /\ WireThreshold(ret.wire) = 30
    /\ ret.val = "TETSUO_ERR_BELOW_THRESHOLD"

AfterBatchVerify == ret.op = "tetsuo_batch_verify" /\ batch.exists

\* C2 (as claimed): when the pairing back-end is not initialized or the
\* context has no Groth16 key, no proof of a batch has the per-proof result
\* OK after batch_verify.
C2_FailClosedBatch ==
    (AfterBatchVerify /\ (~g_pairing_initialized \/ ~ctx.groth16_vk)) =>
        \A i \in 1 .. batch.count :
            convert_result(batch.results[i]) # TETSUO_OK

\* C4 (as claimed): tetsuo_batch_verify returns OK exactly when every proof
\* of the batch has the per-proof result OK.
C4_BatchReturnIffAllOk ==
    AfterBatchVerify =>
        ((ret.val = TETSUO_OK) <=>
            \A i \in 1 .. batch.count : batch.results[i] = VERIFY_OK)

\* C6 (as claimed): when the random source fails for a proof, tetsuo_batch_add
\* reports the failure and the proof is never aggregated nor ends with OK.
C6_RngFailureReported ==
    /\ (/\ ret.op = "tetsuo_batch_add"
        /\ batch.exists
        /\ batch.count > 0
        /\ batch.added[batch.count] = "rng") => ret.val # TETSUO_OK
    /\ AfterBatchVerify =>
           \A i \in 1 .. batch.count :
               batch.added[i] = "rng" =>
                   (batch.results[i] # VERIFY_OK /\ i \notin ret.aggregated)

\* C7 (as claimed): a proof whose parse failed in batch_add keeps the result
\* MALFORMED after batch_verify and is not aggregated.
C7_MalformedStays ==
    AfterBatchVerify =>
        \A i \in 1 .. batch.count :
            batch.added[i] = "malformed" =>
                (batch.results[i] = VERIFY_MALFORMED /\ i \notin ret.aggregated)

\* the policy result of the proof in slot i: expiry first, then threshold
PolicyResult(i) ==
    IF /\ ctx.current_time > 0
       /\ (batch.proofs[i].timestamp + ctx.max_proof_age) % UINT32
              < ctx.current_time
    THEN VERIFY_EXPIRED
    ELSE IF batch.proofs[i].threshold < ctx.min_threshold
    THEN VERIFY_BELOW_THRESHOLD
    ELSE VERIFY_OK

\* C8: batch_verify settles the policy checks before any aggregation: a
\* proof that fails a policy check keeps EXPIRED or BELOW_THRESHOLD, is left
\* out of the aggregation and is not verified again by the fallback.
C8_PolicyBeforeAggregation ==
    AfterBatchVerify =>
        \A i \in 1 .. batch.count :
            PolicyResult(i) # VERIFY_OK =>
                /\ batch.results[i] = PolicyResult(i)
                /\ i \notin ret.aggregated
                /\ i \notin ret.reverified

C8_Witness ==
    /\ AfterBatchVerify
    /\ \E i \in 1 .. batch.count :
           batch.results[i] \in {VERIFY_EXPIRED, VERIFY_BELOW_THRESHOLD}
    /\ ret.aggregated # {}
    /\ ret.reverified # {}

\* C5 (as claimed): with four or more proofs that each pass groth16_verify
\* against the key, groth16_verify_batch returns true whatever the random
\* coefficients are, the random source and the scratch allocations working.
C5_BatchComplete ==
    (/\ groth16_ret.op = "groth16_verify_batch"
     /\ Len(groth16_ret.entries) >= BatchMinProofs
     /\ groth16_ret.rng_ok
     /\ groth16_ret.scratch = "ok"
     /\ \A i \in 1 .. Len(groth16_ret.entries) :
            groth16_verify(groth16_vk, groth16_ret.entries[i].proof,
                           groth16_ret.entries[i].inputs, TRUE))
    => groth16_ret.result

\* C11 (as claimed): on a context created with config.max_proof_age = 0
\* tetsuo_verify never returns EXPIRED, whatever the current time and the
\* timestamp of the proof are.
C11_ZeroAgeNoLimit ==
    (AfterVerify /\ ctx.cfg_no_limit) => ret.val # "TETSUO_ERR_EXPIRED"

\* C12: a batch exists only with 1 <= capacity <= TETSUO_MAX_BATCH_SIZE,
\* its count stays within 0 .. capacity, and no call on an existing batch
\* changes its capacity.
C12_BatchBounds ==
    /\ [](batch.exists =>
            /\ 1 <= batch.capacity
            /\ batch.capacity <= TETSUO_MAX_BATCH_SIZE
            /\ 0 <= batch.count
            /\ batch.count <= batch.capacity)
    /\ [][(batch.exists /\ ret'.op # "tetsuo_batch_create")
              => batch'.capacity = batch.capacity]_vars

\* a batch that was filled up to its capacity and then reset
C12_Witness ==
    /\ ret.op = "tetsuo_batch_reset"
    /\ batch.exists
    /\ batch.capacity > 1
    /\ batch.count = 0
    /\ batch.proofs[batch.capacity] # ZeroProof

\* C13 (as claimed): tetsuo_batch_add on a batch whose count equals its
\* capacity returns a result other than OK and leaves the batch as it was.
C13_BatchFullReported ==
    [][(/\ batch.exists
        /\ batch.count = batch.capacity
        /\ ret'.op = "tetsuo_batch_add")
       => (ret'.val # TETSUO_OK /\ batch' = batch)]_vars

\* C14 (as claimed): under every interleaving of pairing_init calls
\* mclBn_init runs at most once, and whenever a call has returned true or
\* pairing_is_initialized() has reported true, mclBn_init has completed
\* with success.
C14_InitRaceFree ==
    /\ mcl.runs <= 1
    /\ \A t \in Threads :
           (init_ret[t] = "true" \/ init_seen[t] = "true") => mcl.state = "ok"

\* C16 (as claimed): one permutation runs POSEIDON_R_F full rounds, half
\* of them at the start and half at the end, and POSEIDON_R_P partial rounds
\* in between; every round adds its three constants before the S-box and
\* the S-box before the MDS matrix, and the constant index stays in the table.
C16_PoseidonRounds ==
    /\ hash_st.rc_idx <= POSEIDON_RC_LEN
    /\ hash_st.pc = "sbox" => hash_st.rc_idx = POSEIDON_T * (hash_st.r + 1)
    /\ hash_st.pc = "mds" => hash_st.full + hash_st.partial = hash_st.r + 1
    /\ hash_st.pc = "done" =>
           /\ hash_st.full = POSEIDON_R_F
           /\ hash_st.partial = POSEIDON_R_P

\* C15 (as claimed): compute_nullifier is a pure function: two calls with
\* the same agent key and nonce return the same nullifier, also when the
\* threads make their first calls while the round-constant table is filled.
C15_NullifierPure ==
    \A t1, t2 \in Threads :
        (/\ nul[t1].pc = "done" /\ nul[t2].pc = "done"
         /\ nul[t1].agent_pk = nul[t2].agent_pk
         /\ nul[t1].nonce = nul[t2].nonce)
        => nul[t1].out = nul[t2].out

\* a region lies inside the block it was returned from
RegionInBlock(r) ==
    \E i \in 1 .. Len(arena.blocks) :
        /\ arena.blocks[i].id = r.block
        /\ r.hi <= arena.blocks[i].size

RegionsOverlap(r1, r2) ==
    /\ r1.block = r2.block
    /\ r1.lo < r2.hi
    /\ r2.lo < r1.hi

\* C17 (as claimed): checkpoint and restore rewind the arena exactly: after
\* arena_restore the current block, its used cursor and arena_used are the
\* ones of the checkpoint; no region returned before the checkpoint is
\* overlapped by a region returned later, and every region returned lies
\* inside one block.
C17_CheckpointRestoreExact ==
    /\ arena_ret.op = "arena_restore" =>
           /\ arena.blocks[arena.current].id = arena_ret.cp.cp.block
           /\ arena.blocks[arena.current].used = arena_ret.cp.cp.position
           /\ arena_used(arena) = arena_ret.cp.used
    /\ \A r \in arena_live : RegionInBlock(r)
    /\ \A r1, r2 \in arena_live : r1 # r2 => ~RegionsOverlap(r1, r2)

\* C18: after arena_reset every block has used = 0, the current block is
\* the head of the chain and arena_used returns 0.
C18_ResetClears ==
    arena_ret.op = "arena_reset" =>
        /\ \A i \in 1 .. Len(arena.blocks) : arena.blocks[i].used = 0
        /\ arena.current = 1
        /\ arena_used(arena) = 0

\* arena_reset has run on a chain of several blocks that had been in use
C18_Witness ==
    /\ arena_ret.op = "arena_reset"
    /\ Len(arena.blocks) > 1
    /\ arena.peak_usage > 0

\* C19 (as claimed): the arena lives as long as it is referenced: its
\* blocks are freed at most once, and an arena another holder has a
\* reference to is not freed, in particular not by tetsuo_ctx_destroy.
C19_ArenaFollowsRefcount ==
    /\ arena_rc.frees <= 1
    /\ arena_rc.holders # {} => arena_rc.alive

\* the levels a proof of the length given has: floor((len - 32) / 33)
ExclusionDepth == (excl.proof.len - FieldBytes) \div LevelBytes

\* a level that is looked at has a direction byte above 1
ExclusionBadDirection ==
    \E i \in 0 .. (ExclusionDepth - 1) :
        ProofByte(excl.proof, i * LevelBytes) > 1

\* the hash chain from the leaf over the first n levels
RECURSIVE ExclusionChain(_)
ExclusionChain(n) ==
    IF n = 0 THEN field_to_mont(field_from_bytes(excl.leaf))
    ELSE LET below == ExclusionChain(n - 1)
             sibling == field_to_mont(field_from_bytes(
                            [k \in 1 .. FieldBytes |->
                                ProofByte(excl.proof, (n - 1) * LevelBytes + k)]))
         IN IF ProofByte(excl.proof, (n - 1) * LevelBytes) = 0
            THEN poseidon_hash(PoseidonRcTable, <<below, sibling>>)
            ELSE poseidon_hash(PoseidonRcTable, <<sibling, below>>)

\* C20: verify_exclusion_proof returns false for a proof shorter than 32
\* bytes or longer than 32 + 256 * 33 and for a proof with a direction byte
\* above 1 in a level it looks at; it hashes floor((proof_len - 32) / 33)
\* levels, at most 256, and returns true only if the last hash is the root.
C20_ExclusionProof ==
    excl.op = "tetsuo_verify_exclusion" =>
        /\ (excl.proof.len < FieldBytes
            \/ excl.proof.len > FieldBytes + ExclusionMaxDepth * LevelBytes)
           => ~excl.result
        /\ excl.levels <= ExclusionMaxDepth
        /\ excl.result =>
               /\ ~ExclusionBadDirection
               /\ excl.levels = ExclusionDepth
               /\ field_to_bytes(field_from_mont(ExclusionChain(ExclusionDepth)))
                  = excl.root

\* a proof of full depth with clean direction bytes was accepted
C20_Witness ==
    /\ excl.op = "tetsuo_verify_exclusion"
    /\ excl.result
    /\ excl.levels = ExclusionMaxDepth
    /\ \E i \in 0 .. (ExclusionDepth - 1) : ProofByte(excl.proof, i * LevelBytes) = 1


(***************************************************************************)
(* api.c: statistics                                                        *)
(***************************************************************************)
\* the counters against the tally of the calls
StatsCounted(s) ==
    /\ s.total_verified = s.verify_calls + s.batch_proofs
    /\ s.total_failed = s.not_ok
    /\ s.total_failed <= s.total_verified
    /\ s.total_batches = s.batch_calls

\* C21: the statistics are all zero after tetsuo_ctx_create; after any
\* tetsuo_verify and tetsuo_batch_verify calls total_verified is the number
\* of accepted tetsuo_verify calls plus the sum of the batch counts,
\* total_failed the number of those proofs reported not OK (so at most
\* total_verified), total_batches the number of tetsuo_batch_verify calls;
\* peak_memory_usage never decreases, and a call rejected with
\* TETSUO_ERR_INVALID_PARAM changes no counter.
C21_Statistics ==
    [][stats.followed =>
          /\ (~ctx.exists /\ ctx'.exists) => stats' = NoStats(TRUE)
          /\ ctx'.exists => StatsCounted(stats')
          /\ (ctx.exists /\ ctx'.exists) =>
                 stats'.peak_memory_usage >= stats.peak_memory_usage
          /\ (ret'.op \in {"tetsuo_verify", "tetsuo_batch_verify"}
                 /\ ret'.val = TETSUO_ERR_INVALID_PARAM) => stats' = stats]_vars

\* a single proof and a batch of two counted, some of them failed, not all
C21_Witness ==
    /\ stats.followed
    /\ ctx.exists
    /\ stats.verify_calls = 1
    /\ stats.batch_calls = 1
    /\ stats.total_verified = 3
    /\ stats.total_failed > 0
    /\ stats.total_failed < stats.total_verified
    /\ stats.peak_memory_usage > 0


(***************************************************************************)
(* api.c: tetsuo_proof_create.  A buffer handed by pointer is a record:    *)
(* null for the NULL pointer, else its bytes.                               *)
(***************************************************************************)
\* the 256 bytes of proof_data: eight field elements
PROOF_DATA_LEN == 8 * FieldBytes

\* the 128 bytes tetsuo_proof_create copies at most: four field elements
ProofCopyMax == 4 * FieldBytes

NullBuf == [null |-> TRUE, bytes |-> <<>>]

Buf(bytes) == [null |-> FALSE, bytes |-> bytes]

\* the tetsuo_proof_t the caller hands over, holding what was there before
OldProof ==
    [null |-> FALSE, type |-> 3, version |-> 7, flags |-> 9, timestamp |-> 5,
     agent_pk |-> [k \in 1 .. FieldBytes |-> 6],
     commitment |-> [k \in 1 .. FieldBytes |-> 6],
     proof_data |-> [k \in 1 .. PROOF_DATA_LEN |-> 6]]

NullProof == [OldProof EXCEPT !.null = TRUE]

\* tetsuo_proof_create; now: what time(NULL) returns
tetsuo_proof_create(proof, type, threshold, agent_pk, commitment, proof_bytes, proof_len, now) ==
    IF proof.null \/ agent_pk.null \/ commitment.null
    THEN [result |-> TETSUO_ERR_INVALID_PARAM, proof |-> proof]
    ELSE LET copy_len == IF proof_len < ProofCopyMax THEN proof_len
                         ELSE ProofCopyMax
         IN [result |-> TETSUO_OK,
             proof |-> [null |-> FALSE, type |-> type, version |-> 1,
                        flags |-> threshold, timestamp |-> now % UINT32,
                        agent_pk |-> agent_pk.bytes,
                        commitment |-> commitment.bytes,
                        proof_data |->
                            [k \in 1 .. PROOF_DATA_LEN |->
                                IF ~proof_bytes.null /\ proof_len > 0 /\ k <= copy_len
                                THEN proof_bytes.bytes[k] ELSE 0]]]

\* a caller's proof bytes: none of them zero
ProofBytes(len) == [k \in 1 .. len |-> 1 + (k % (Pow2(ByteBits) - 1))]

ProofLens == {0, 1, ProofCopyMax, ProofCopyMax + 1, PROOF_DATA_LEN, PROOF_DATA_LEN + 1}

KeyBufs == {NullBuf, Buf(<<4, 2>>), Buf(<<0, 0>>)}

tetsuo_proof_create_call ==
    \E proof \in {OldProof, NullProof}, type \in {0, 1}, threshold \in {0, 75},
       agent_pk \in KeyBufs, commitment \in KeyBufs,
       proof_len \in ProofLens, bytes_null \in BOOLEAN, now \in Times :
        LET proof_bytes == IF bytes_null THEN NullBuf ELSE Buf(ProofBytes(proof_len))
        IN /\ fn.op = "none"
           /\ bytes_null => proof_len = 0
           /\ fn' = [op |-> "tetsuo_proof_create",
                     in |-> [proof |-> proof, type |-> type, threshold |-> threshold,
                             agent_pk |-> agent_pk, commitment |-> commitment,
                             proof_bytes |-> proof_bytes, proof_len |-> proof_len],
                     out |-> tetsuo_proof_create(proof, type, threshold, agent_pk,
                                                 commitment, proof_bytes, proof_len, now)]
           /\ UNCHANGED <<excl, stats, init_vars, poseidon_vars, arena_vars, arena_rc,
                          pairing_vars, api_vars, g_pairing_initialized>>

\* the caller drops the result of the last function call
fn_forget ==
    /\ fn.op # "none"
    /\ fn' = NoFn
    /\ UNCHANGED <<excl, stats, init_vars, poseidon_vars, arena_vars, arena_rc,
                   pairing_vars, api_vars, g_pairing_initialized>>

NextProofCreate ==
    \/ tetsuo_proof_create_call
    \/ fn_forget

SpecProofCreate == Init /\ [][NextProofCreate]_vars

Min(a, b) == IF a < b THEN a ELSE b

\* C22 (as claimed): tetsuo_proof_create writes a wire record with version 1,
\* type and flags (the threshold) as given, agent_pk and commitment copied
\* byte for byte, and proof_data the first min(proof_len, 256) bytes of
\* proof_bytes followed by zeros; with a null output, agent_pk or commitment
\* pointer it returns TETSUO_ERR_INVALID_PARAM and writes nothing.
C22_ProofCreate ==
    fn.op = "tetsuo_proof_create" =>
        IF fn.in.proof.null \/ fn.in.agent_pk.null \/ fn.in.commitment.null
        THEN /\ fn.out.result = TETSUO_ERR_INVALID_PARAM
             /\ fn.out.proof = fn.in.proof
        ELSE LET n == Min(fn.in.proof_len, PROOF_DATA_LEN)
             IN /\ fn.out.result = TETSUO_OK
                /\ fn.out.proof.version = 1
                /\ fn.out.proof.type = fn.in.type
                /\ fn.out.proof.flags = fn.in.threshold
                /\ fn.out.proof.agent_pk = fn.in.agent_pk.bytes
                /\ fn.out.proof.commitment = fn.in.commitment.bytes
                /\ fn.out.proof.proof_data =
                       [k \in 1 .. PROOF_DATA_LEN |->
                           IF k <= n THEN fn.in.proof_bytes.bytes[k] ELSE 0]


(***************************************************************************)
(* field.c on limbs.  A field_t is its four limbs, least significant       *)
(* first, each of LimbBits bits; the modulus is a prime two bits shorter    *)
(* than the four limbs, as the BN254 modulus is.  field.c has two builds:   *)
(* the one with the x86-64 BMI2 instruction sequences (USE_ASM_X64) and the *)
(* portable one.                                                            *)
(***************************************************************************)
NumLimbs == 4
LimbBits == 3
LimbBase == Pow2(LimbBits)

\* the modulus as a number, and R = 2^(4 limbs)
LIMB_MODULUS == 1021
LimbR == LimbBase ^ NumLimbs

\* e, once v has been evaluated (the order the code computes them in)
Then(v, e) == IF v = v THEN e ELSE e

\* F of the value of v, v computed once and before F
Bind(v, F(_)) == CHOOSE r \in {F(x) : x \in {v}} : TRUE

\* a number as n limbs, and back
RECURSIVE ToLimbs(_, _)
ToLimbs(x, n) ==
    IF n = 0 THEN <<>>
    ELSE <<x % LimbBase>> \o ToLimbs(x \div LimbBase, n - 1)

RECURSIVE LimbSum(_, _)
LimbSum(l, n) ==
    IF n = 0 THEN 0
    ELSE LimbSum(l, n - 1) + l[n] * (LimbBase ^ (n - 1))

FromLimbs(l) == LimbSum(l, NumLimbs)

FIELD_MODULUS_limbs == ToLimbs(LIMB_MODULUS, NumLimbs)

\* -p^(-1) mod 2^LimbBits
FIELD_INV_limb ==
    CHOOSE k \in 0 .. (LimbBase - 1) : (k * LIMB_MODULUS + 1) % LimbBase = 0

\* add_256 (both builds: an add and three adds with carry): <<r, carry>>
RECURSIVE add_256_loop(_, _, _, _, _)
add_256_loop(r, a, b, i, acc) ==
    IF i > NumLimbs THEN <<r, acc>>
    ELSE LET sum == acc + a[i] + b[i]
         IN add_256_loop(Append(r, sum % LimbBase), a, b, i + 1,
                         sum \div LimbBase)

add_256(a, b) == add_256_loop(<<>>, a, b, 1, 0)

\* sub_256 (both builds): <<r, borrow>>
RECURSIVE sub_256_loop(_, _, _, _, _)
sub_256_loop(r, a, b, i, acc) ==
    IF i > NumLimbs THEN <<r, IF acc < 0 THEN 1 ELSE 0>>
    ELSE LET d == acc + a[i] - b[i]
         IN sub_256_loop(Append(r, (d + LimbBase) % LimbBase), a, b, i + 1,
                         IF d < 0 THEN 0 - 1 ELSE 0)

sub_256(a, b) == sub_256_loop(<<>>, a, b, 1, 0)

\* mul_256x256 of the portable build: r[i + j] and the carry, row by row
RECURSIVE mul_row(_, _, _, _, _, _)
mul_row(r, a, b, i, j, carry) ==
    IF j > NumLimbs THEN [r EXCEPT ![i + NumLimbs] = carry]
    ELSE LET acc == a[i] * b[j] + r[i + j - 1] + carry
         IN mul_row([r EXCEPT ![i + j - 1] = acc % LimbBase], a, b, i, j + 1,
                    acc \div LimbBase)

RECURSIVE mul_rows(_, _, _, _)
mul_rows(r, a, b, i) ==
    IF i > NumLimbs THEN r
    ELSE LET row == mul_row(r, a, b, i, 1, 0)
         IN Then(row, mul_rows(row, a, b, i + 1))

mul_256x256(a, b) == mul_rows(ToLimbs(0, 2 * NumLimbs), a, b, 1)

\* the last step of mont_reduce in both builds: r = t[4..7], less the
\* modulus when that does not borrow
mont_final(t) ==
    LET r == SubSeq(t, NumLimbs + 1, 2 * NumLimbs)
        d == sub_256(r, FIELD_MODULUS_limbs)
    IN IF d[2] = 1 THEN r ELSE d[1]

\* mont_reduce of the portable build on the eight limbs t
RECURSIVE mont_inner(_, _, _, _, _)
mont_inner(t, k, i, j, carry) ==
    IF j > NumLimbs THEN <<t, carry>>
    ELSE LET acc == k * FIELD_MODULUS_limbs[j] + t[i + j - 1] + carry
         IN mont_inner([t EXCEPT ![i + j - 1] = acc % LimbBase], k, i, j + 1,
                       acc \div LimbBase)

RECURSIVE mont_carry(_, _, _)
mont_carry(t, j, carry) ==
    IF j > 2 * NumLimbs \/ carry = 0 THEN t
    ELSE LET acc == t[j] + carry
         IN mont_carry([t EXCEPT ![j] = acc % LimbBase], j + 1, acc \div LimbBase)

RECURSIVE mont_outer(_, _)
mont_outer(t, i) ==
    IF i > NumLimbs THEN t
    ELSE LET k == (t[i] * FIELD_INV_limb) % LimbBase
             in == mont_inner(t, k, i, 1, 0)
             out == mont_carry(in[1], i + NumLimbs, in[2])
         IN Then(out, mont_outer(out, i + 1))

mont_reduce_limbs(t) ==
    LET reduced == mont_outer(t, 1)
    IN Then(reduced, mont_final(reduced))

\* mulx: the low and the high limb of a product
mulx(x, y) == [lo |-> (x * y) % LimbBase, hi |-> (x * y) \div LimbBase]

\* add / adc: the limb and the carry flag
adc(x, y, cf) == [v |-> (x + y + cf) % LimbBase, cf |-> (x + y + cf) \div LimbBase]

\* The BMI2 sequence that adds k * m to t from limb i on (mont_reduce, and
\* rows 2 to 4 of mul_256x256): mulx, add into t[i]; then per limb mulx,
\* adc of the previous high limb into the low one, add into t; the carry
\* flag of each adc is overwritten by the add that follows it.  through:
\* the last limb the final carry is added into (limbs beyond the eighth,
\* which mont_reduce names for i > 0, lie outside t).
asm_row(t, k, m, i, through) ==
    LET m0 == mulx(k, m[1])
        m1 == mulx(k, m[2])
        m2 == mulx(k, m[3])
        m3 == mulx(k, m[4])
        s0 == adc(t[i], m0.lo, 0)
        x1 == adc(m1.lo, m0.hi, s0.cf)
        s1 == adc(t[i + 1], x1.v, 0)
        x2 == adc(m2.lo, m1.hi, s1.cf)
        s2 == adc(t[i + 2], x2.v, 0)
        x3 == adc(m3.lo, m2.hi, s2.cf)
        s3 == adc(t[i + 3], x3.v, 0)
        s4 == adc(t[i + 4], m3.hi, s3.cf)
        t4 == [t EXCEPT ![i] = s0.v, ![i + 1] = s1.v, ![i + 2] = s2.v,
                        ![i + 3] = s3.v, ![i + 4] = s4.v]
    IN mont_carry(t4, i + 5, IF through > i + 4 THEN s4.cf ELSE 0)

\* mont_reduce of the BMI2 build
RECURSIVE mont_outer_asm(_, _)
mont_outer_asm(t, i) ==
    IF i > NumLimbs THEN t
    ELSE LET k == (t[i] * FIELD_INV_limb) % LimbBase
             row == asm_row(t, k, FIELD_MODULUS_limbs, i, 2 * NumLimbs)
         IN Then(row, mont_outer_asm(row, i + 1))

mont_reduce_asm(t) ==
    LET reduced == mont_outer_asm(t, 1)
    IN Then(reduced, mont_final(reduced))

\* mul_256x256 of the BMI2 build: the first row with one carry chain, the
\* other rows by the sequence above into a cleared top limb
mul_256x256_asm(a, b) ==
    LET m0 == mulx(a[1], b[1])
        m1 == mulx(a[1], b[2])
        m2 == mulx(a[1], b[3])
        m3 == mulx(a[1], b[4])
        s1 == adc(m1.lo, m0.hi, 0)
        s2 == adc(m2.lo, m1.hi, s1.cf)
        s3 == adc(m3.lo, m2.hi, s2.cf)
        s4 == adc(m3.hi, 0, s3.cf)
        r0 == <<m0.lo, s1.v, s2.v, s3.v, s4.v, 0, 0, 0>>
        r1 == asm_row(r0, a[2], b, 2, 6)
        r2 == asm_row(r1, a[3], b, 3, 7)
    IN asm_row(r2, a[4], b, 4, 8)

\* sqr_256 of the BMI2 build, instruction by instruction
sqr_256_asm(a) ==
    LET q00 == mulx(a[1], a[1])
        q01 == mulx(a[1], a[2])
        q02 == mulx(a[1], a[3])
        q03 == mulx(a[1], a[4])
        d01 == adc(q01.lo, q01.lo, 0)
        t2a == adc(q02.lo, q01.hi, d01.cf)
        t3a == adc(q02.hi, 0, t2a.cf)
        t1a == adc(q00.hi, d01.v, 0)
        t2b == adc(t2a.v, q01.hi, t1a.cf)
        q11 == mulx(a[2], a[2])
        t2c == adc(t2b.v, q11.lo, 0)
        t3b == adc(t3a.v, q11.hi, t2c.cf)
        q12 == mulx(a[2], a[3])
        d12l == adc(q12.lo, q12.lo, 0)
        d12h == adc(q12.hi, q12.hi, d12l.cf)
        t3c == adc(t3b.v, d12l.v, 0)
        t4a == adc(q03.lo, d12h.v, t3c.cf)
        q13 == mulx(a[2], a[4])
        d13l == adc(q13.lo, q13.lo, 0)
        d13h == adc(q13.hi, q13.hi, d13l.cf)
        t4b == adc(t4a.v, d13l.v, 0)
        t5a == adc(q03.hi, d13h.v, t4b.cf)
        q22 == mulx(a[3], a[3])
        t4c == adc(t4b.v, q22.lo, 0)
        t5b == adc(t5a.v, q22.hi, t4c.cf)
        q23 == mulx(a[3], a[4])
        d23l == adc(q23.lo, q23.lo, 0)
        d23h == adc(q23.hi, q23.hi, d23l.cf)
        t5c == adc(t5b.v, d23l.v, 0)
        t6a == adc(0, d23h.v, t5c.cf)
        q33 == mulx(a[4], a[4])
        t6b == adc(t6a.v, q33.lo, 0)
        t7a == adc(q33.hi, 0, t6b.cf)
    IN <<q00.lo, t1a.v, t2c.v, t3c.v, t4c.v, t5c.v, t6b.v, t7a.v>>

\* field_add .. field_neg on limbs; asm: the build is the BMI2 one
field_add_limbs(a, b) ==
    LET sum == add_256(a, b)
        d == sub_256(sum[1], FIELD_MODULUS_limbs)
    IN IF sum[2] = 1 \/ d[2] = 0 THEN d[1] ELSE sum[1]

field_sub_limbs(a, b) ==
    LET d == sub_256(a, b)
    IN IF d[2] = 1 THEN add_256(d[1], FIELD_MODULUS_limbs)[1] ELSE d[1]

field_mul_limbs(asm, a, b) ==
    LET t == IF asm THEN mul_256x256_asm(a, b) ELSE mul_256x256(a, b)
    IN Then(t, IF asm THEN mont_reduce_asm(t) ELSE mont_reduce_limbs(t))

field_sqr_limbs(asm, a) ==
    LET t == IF asm THEN sqr_256_asm(a) ELSE mul_256x256(a, a)
    IN Then(t, IF asm THEN mont_reduce_asm(t) ELSE mont_reduce_limbs(t))

field_is_zero_limbs(a) == \A i \in 1 .. NumLimbs : a[i] = 0

field_neg_limbs(a) ==
    IF field_is_zero_limbs(a) THEN ToLimbs(0, NumLimbs)
    ELSE sub_256(FIELD_MODULUS_limbs, a)[1]


\* canonical field elements handed to the field functions
FieldSamples == {0, 1, 2, 5, 8, 63, 64, 300, 511, 512, 777, 1019, 1020}

\* inputs of mont_reduce up to p * R
ReduceSamples ==
    {0, 1, LIMB_MODULUS, LimbR, LimbR + 1, 1020 * 1020,
     LIMB_MODULUS * LimbR - LIMB_MODULUS, LIMB_MODULUS * LimbR - 1,
     LIMB_MODULUS * LimbR}

\* field_add, field_sub, field_mul, field_sqr and field_neg on a and b
field_ops_call ==
    \E asm \in BOOLEAN, x \in FieldSamples, y \in FieldSamples :
        LET a == ToLimbs(x, NumLimbs)
            b == ToLimbs(y, NumLimbs)
        IN /\ fn.op = "none"
           /\ fn' = [op |-> "field_ops",
                     in |-> [asm |-> asm, a |-> a, b |-> b],
                     out |-> [add |-> field_add_limbs(a, b),
                              sub |-> field_sub_limbs(a, b),
                              mul |-> field_mul_limbs(asm, a, b),
                              sqr |-> field_sqr_limbs(asm, a),
                              neg |-> field_neg_limbs(a)]]
           /\ UNCHANGED <<excl, stats, init_vars, poseidon_vars, arena_vars, arena_rc,
                          pairing_vars, api_vars, g_pairing_initialized>>

\* mont_reduce on eight limbs
mont_reduce_call ==
    \E asm \in BOOLEAN, x \in ReduceSamples :
        LET t == ToLimbs(x, 2 * NumLimbs)
        IN /\ fn.op = "none"
           /\ fn' = [op |-> "mont_reduce",
                     in |-> [asm |-> asm, t |-> t],
                     out |-> IF asm THEN mont_reduce_asm(t) ELSE mont_reduce_limbs(t)]
           /\ UNCHANGED <<excl, stats, init_vars, poseidon_vars, arena_vars, arena_rc,
                          pairing_vars, api_vars, g_pairing_initialized>>

\* field_cmp: from the top limb down, the top bit of the wrapped difference
\* of the limbs each way, taken while neither gt nor lt is set
RECURSIVE field_cmp_loop(_, _, _, _, _)
field_cmp_loop(a, b, i, gt, lt) ==
    IF i = 0 THEN gt - lt
    ELSE LET a_gt_b == ((b[i] + LimbBase - a[i]) % LimbBase) \div Pow2(LimbBits - 1)
             b_gt_a == ((a[i] + LimbBase - b[i]) % LimbBase) \div Pow2(LimbBits - 1)
             undecided == IF gt = 1 \/ lt = 1 THEN 0 ELSE 1
         IN field_cmp_loop(a, b, i - 1,
                           IF a_gt_b = 1 /\ undecided = 1 THEN 1 ELSE gt,
                           IF b_gt_a = 1 /\ undecided = 1 THEN 1 ELSE lt)

field_cmp(a, b) == field_cmp_loop(a, b, NumLimbs, 0, 0)

\* limb values handed to field_cmp
CmpSamples ==
    {<<l0, l1, l2, l3>> : l0 \in {0, 3, 4, 7}, l1 \in {0, 1, 7}, l2 \in {0, 5}, l3 \in {0, 1}}

field_cmp_call ==
    \E a \in CmpSamples, b \in CmpSamples :
        /\ fn.op = "none"
        /\ fn' = [op |-> "field_cmp", in |-> [asm |-> FALSE, a |-> a, b |-> b],
                  out |-> field_cmp(a, b)]
        /\ UNCHANGED <<excl, stats, init_vars, poseidon_vars, arena_vars, arena_rc,
                       pairing_vars, api_vars, g_pairing_initialized>>

\* field_inv: a^(p-2) by square and multiply over the bits of the limbs of
\* p - 2 from the least significant, the result starting at one (R mod p)
RECURSIVE field_inv_loop(_, _, _, _)
field_inv_loop(asm, base, result, k) ==
    IF k = NumLimbs * LimbBits THEN result
    ELSE LET exp == ToLimbs(LIMB_MODULUS - 2, NumLimbs)
             e == (exp[(k \div LimbBits) + 1] \div Pow2(k % LimbBits)) % 2
         IN Bind(<<base, result>>, LAMBDA br :
                Bind(<<IF e = 1 THEN field_mul_limbs(asm, br[2], br[1]) ELSE br[2],
                       field_sqr_limbs(asm, br[1])>>,
                     LAMBDA ms : field_inv_loop(asm, ms[2], ms[1], k + 1)))

field_inv_limbs(asm, a) ==
    field_inv_loop(asm, a, ToLimbs(LimbR % LIMB_MODULUS, NumLimbs), 0)

\* acc[i] = a[1] * ... * a[i]
RECURSIVE batch_inv_acc(_, _, _)
batch_inv_acc(asm, a, i) ==
    IF i = 1 THEN <<a[1]>>
    ELSE Bind(batch_inv_acc(asm, a, i - 1), LAMBDA acc :
             Append(acc, field_mul_limbs(asm, acc[i - 1], a[i])))

\* the backward loop: r[i] = inv_all * acc[i-1], inv_all = inv_all * a[i]
RECURSIVE batch_inv_back(_, _, _, _, _, _)
batch_inv_back(asm, a, acc, r, inv_all, i) ==
    IF i = 1 THEN [r EXCEPT ![1] = inv_all]
    ELSE Bind(<<field_mul_limbs(asm, inv_all, acc[i - 1]),
                field_mul_limbs(asm, inv_all, a[i]), r>>,
              LAMBDA s : batch_inv_back(asm, a, acc, [s[3] EXCEPT ![i] = s[1]],
                                        s[2], i - 1))

RECURSIVE batch_inv_each(_, _, _, _)
batch_inv_each(asm, a, r, i) ==
    IF i > Len(a) THEN r
    ELSE Bind(<<field_inv_limbs(asm, a[i]), r>>, LAMBDA s :
             batch_inv_each(asm, a, [s[2] EXCEPT ![i] = s[1]], i + 1))

\* field_batch_inv(r, a, count) with r and a distinct arrays of count
\* elements; malloc_ok is whether the scratch array acc could be allocated
field_batch_inv(asm, r, a, malloc_ok) ==
    LET count == Len(a)
    IN IF count = 0 THEN r
       ELSE IF count = 1 THEN <<field_inv_limbs(asm, a[1])>>
       ELSE IF ~malloc_ok THEN batch_inv_each(asm, a, r, 1)
       ELSE Bind(batch_inv_acc(asm, a, count), LAMBDA acc :
                Bind(field_inv_limbs(asm, acc[count]), LAMBDA inv_all :
                    batch_inv_back(asm, a, acc, r, inv_all, count)))

MaxInvCount == 2

\* canonical field elements handed to field_batch_inv
InvSamples == {0, 1, 2, 5, 777, 1020}

RECURSIVE InvLists(_)
InvLists(n) ==
    IF n = 0 THEN {<<>>}
    ELSE InvLists(n - 1) \cup
         {Append(l, ToLimbs(x, NumLimbs)) :
              l \in {m \in InvLists(n - 1) : Len(m) = n - 1}, x \in InvSamples}

\* an output array of n elements holding zeros
RECURSIVE ZeroList(_)
ZeroList(n) == IF n = 0 THEN <<>> ELSE Append(ZeroList(n - 1), ToLimbs(0, NumLimbs))

\* field_batch_inv of the portable build on a list of up to MaxInvCount
\* elements, the output array holding zeros before the call
field_batch_inv_call ==
    \E a \in InvLists(MaxInvCount), malloc_ok \in BOOLEAN :
        LET r == ZeroList(Len(a))
        IN /\ fn.op = "none"
           /\ fn' = [op |-> "field_batch_inv",
                     in |-> [asm |-> FALSE, a |-> a, malloc_ok |-> malloc_ok],
                     out |-> field_batch_inv(FALSE, r, a, malloc_ok)]
           /\ UNCHANGED <<excl, stats, init_vars, poseidon_vars, arena_vars, arena_rc,
                          pairing_vars, api_vars, g_pairing_initialized>>

NextField ==
    \/ field_ops_call
    \/ mont_reduce_call
    \/ field_cmp_call
    \/ field_batch_inv_call
    \/ fn_forget

SpecField == Init /\ [][NextField]_vars

(***************************************************************************)
(* The random coefficients of batch verification, before their conversion  *)
(* to Montgomery form (verify.c batch_add, pairing.c random_scalar).       *)
(***************************************************************************)
\* every content of rand_bytes
AllRandBytes == {<<hi, lo>> : hi \in ByteVals, lo \in ByteVals}

\* batch_add on the bytes of get_random_bytes: the integer it hands to
\* field_to_mont and the coefficient it stores
batch_add_scalar_call ==
    \E rand_bytes \in AllRandBytes :
        /\ fn.op = "none"
        /\ fn' = [op |-> "batch_add_scalar",
                  in |-> [rand_bytes |-> rand_bytes],
                  out |-> [scalar |-> batch_add_scalar(rand_bytes),
                           coefficient |-> BatchCoefficient(rand_bytes)]]
        /\ UNCHANGED <<excl, stats, init_vars, poseidon_vars, arena_vars, arena_rc,
                       pairing_vars, api_vars, g_pairing_initialized>>

\* random_scalar on the limbs read from the random source
random_scalar_call ==
    \E raw \in 0 .. (MontR - 1) :
        /\ fn.op = "none"
        /\ fn' = [op |-> "random_scalar",
                  in |-> [raw |-> raw],
                  out |-> [scalar |-> random_scalar_limbs(raw),
                           coefficient |-> random_scalar(raw)]]
        /\ UNCHANGED <<excl, stats, init_vars, poseidon_vars, arena_vars, arena_rc,
                       pairing_vars, api_vars, g_pairing_initialized>>

NextCoefficient ==
    \/ batch_add_scalar_call
    \/ random_scalar_call
    \/ fn_forget

SpecCoefficient == Init /\ [][NextCoefficient]_vars

(***************************************************************************)
(* verify.c: point_mul and multi_scalar_mul on their own                   *)
(***************************************************************************)
MaxMsmCount == 2

\* curve points and raw scalars handed to multi_scalar_mul
MsmPoints == {PointInf, PointAff(1), PointAff(3)}
MsmScalars == {0, 1, 2, 3, 17, 63}

multi_scalar_mul_call ==
    \E count \in 0 .. MaxMsmCount :
        \E points \in [1 .. count -> MsmPoints], scalars \in [1 .. count -> MsmScalars] :
            /\ fn.op = "none"
            /\ fn' = [op |-> "multi_scalar_mul",
                      in |-> [points |-> points, scalars |-> scalars],
                      out |-> multi_scalar_mul(points, scalars)]
            /\ UNCHANGED <<excl, stats, init_vars, poseidon_vars, arena_vars, arena_rc,
                           pairing_vars, api_vars, g_pairing_initialized>>

NextMsm ==
    \/ multi_scalar_mul_call
    \/ fn_forget

SpecMsm == Init /\ [][NextMsm]_vars

(***************************************************************************)
(* The scratch arena of the calling thread across batch_verify,            *)
(* multi_scalar_mul, pairing_multi and groth16_verify_batch.  The variable *)
(* arena is that arena; each operator returns it as the function leaves    *)
(* it.  Sizes are those of the arrays, a field_t taking FieldBytes.        *)
(***************************************************************************)
SizeofPoint == 3 * FieldBytes
SizeofG1 == 2 * FieldBytes + 1
SizeofG2 == 4 * FieldBytes + 1
SizeofMclG1 == 3 * FieldBytes
SizeofMclG2 == 6 * FieldBytes

\* arena_alloc of each size in turn: the arena after the calls, and whether
\* every pointer returned is non-NULL
RECURSIVE arena_allocs(_, _)
arena_allocs(a, sizes) ==
    IF sizes = <<>> THEN [arena |-> a, ok |-> TRUE]
    ELSE Bind(arena_alloc(a, Head(sizes) % SizeMod), LAMBDA first :
             Bind(arena_allocs(first.arena, Tail(sizes)), LAMBDA rest :
                 [arena |-> rest.arena, ok |-> first.ptr # NullPtr /\ rest.ok]))

\* pairing_multi returning on an allocation failure without arena_restore
pairing_multi_scratch_leak(a, n) ==
    IF ~g_pairing_initialized THEN a
    ELSE IF n = 0 THEN a
    ELSE LET cp == arena_checkpoint(a)
             res == arena_allocs(a, <<n * SizeofMclG1, n * SizeofMclG2>>)
         IN IF ~res.ok THEN res.arena
            ELSE arena_restore(res.arena, cp)

\* pairing_multi on n pairs
pairing_multi_scratch(a, n) ==
    IF ~g_pairing_initialized THEN a
    ELSE IF n = 0 THEN a
    ELSE LET cp == arena_checkpoint(a)
             res == arena_allocs(a, <<n * SizeofMclG1, n * SizeofMclG2>>)
         IN IF ~res.ok THEN arena_restore(res.arena, cp)
            ELSE arena_restore(res.arena, cp)

\* groth16_verify: reached tells whether it gets to its pairing_multi of
\* three pairs
groth16_verify_scratch(a, reached) ==
    IF reached THEN pairing_multi_scratch(a, 3) ELSE a

\* one groth16_verify after the other, reached[i] for the i-th
RECURSIVE sequential_scratch(_, _)
sequential_scratch(a, reached) ==
    IF reached = <<>> THEN a
    ELSE Bind(groth16_verify_scratch(a, Head(reached)), LAMBDA after :
             sequential_scratch(after, Tail(reached)))

\* multi_scalar_mul on count points
multi_scalar_mul_scratch(a, count) ==
    IF count = 0 THEN a
    ELSE IF count = 1 THEN a
    ELSE LET c == WindowBits(count)
             cp == arena_checkpoint(a)
             buckets == arena_alloc(a, ((Pow2(c) - 1) * SizeofPoint) % SizeMod)
         IN IF buckets.ptr = NullPtr THEN arena_restore(buckets.arena, cp)
            ELSE arena_restore(buckets.arena, cp)

\* batch_verify on count proofs of which valid_count pass the policy;
\* reached[i]: verify_proof_ex of the i-th valid proof gets to
\* groth16_verify's pairing_multi if the proofs are verified one by one;
\* acc_inf: point_is_infinity(&acc_a)
batch_verify_scratch(a, count, valid_count, reached, acc_inf) ==
    IF count = 0 THEN a
    ELSE LET cp == arena_checkpoint(a)
         IN IF valid_count = 0 THEN arena_restore(a, cp)
            ELSE LET res == arena_allocs(a, <<valid_count * SizeofPoint,
                                               valid_count * FieldBytes>>)
                 IN IF ~res.ok
                    THEN sequential_scratch(arena_restore(res.arena, cp), reached)
                    ELSE LET msm == multi_scalar_mul_scratch(res.arena, valid_count)
                             back == arena_restore(msm, cp)
                         IN IF acc_inf THEN sequential_scratch(back, reached)
                            ELSE back

\* groth16_verify_batch on num_proofs proofs; stop: "invalid" if a proof
\* point fails validation, "rng" if random_scalar fails, else "none"
groth16_verify_batch_scratch(a, num_proofs, reached, stop) ==
    IF ~g_pairing_initialized THEN a
    ELSE IF num_proofs = 0 THEN a
    ELSE IF num_proofs < 4 THEN sequential_scratch(a, reached)
    ELSE LET cp == arena_checkpoint(a)
             total_pairings == num_proofs + 2
             res == arena_allocs(a, <<num_proofs * FieldBytes, num_proofs * SizeofG1,
                                      total_pairings * SizeofG1,
                                      total_pairings * SizeofG2>>)
         IN IF ~res.ok THEN sequential_scratch(arena_restore(res.arena, cp), reached)
            ELSE IF stop = "invalid" THEN arena_restore(res.arena, cp)
            ELSE IF stop = "rng" THEN arena_restore(res.arena, cp)
            ELSE arena_restore(pairing_multi_scratch(res.arena, total_pairings), cp)

MaxScratchProofs == 4

\* which of the first n one-by-one verifications get to pairing_multi: all
\* of them, none, or all but the first
ReachedSets(n) ==
    {[i \in 1 .. n |-> TRUE], [i \in 1 .. n |-> FALSE], [i \in 1 .. n |-> i > 1]}

\* what the call found and did, with the arena as it was at entry
ScratchCall(op, in) == [op |-> op, in |-> in, out |-> <<>>]

pairing_multi_scratch_call ==
    \E n \in {0, 3, MaxScratchProofs + 2} :
        /\ arena' = pairing_multi_scratch(arena, n)
        /\ fn' = ScratchCall("pairing_multi", [scratch |-> arena, n |-> n])
        /\ UNCHANGED <<excl, stats, init_vars, poseidon_vars, arena_live, arena_cps,
                       arena_ret, arena_rc, pairing_vars, api_vars, g_pairing_initialized>>

multi_scalar_mul_scratch_call ==
    \E count \in {0, 1, MaxScratchProofs} :
        /\ arena' = multi_scalar_mul_scratch(arena, count)
        /\ fn' = ScratchCall("multi_scalar_mul_scratch", [scratch |-> arena, n |-> count])
        /\ UNCHANGED <<excl, stats, init_vars, poseidon_vars, arena_live, arena_cps,
                       arena_ret, arena_rc, pairing_vars, api_vars, g_pairing_initialized>>

batch_verify_scratch_call ==
    \E count \in {0, MaxScratchProofs}, acc_inf \in BOOLEAN :
        \E valid_count \in {0, count \div 2, count} :
            \E reached \in ReachedSets(valid_count) :
                /\ arena' = batch_verify_scratch(arena, count, valid_count, reached, acc_inf)
                /\ fn' = ScratchCall("batch_verify",
                                     [scratch |-> arena, n |-> count, valid |-> valid_count,
                                      reached |-> reached, acc_inf |-> acc_inf])
                /\ UNCHANGED <<excl, stats, init_vars, poseidon_vars, arena_live,
                               arena_cps, arena_ret, arena_rc, pairing_vars, api_vars,
                               g_pairing_initialized>>

groth16_verify_batch_scratch_call ==
    \E num_proofs \in {0, 1, MaxScratchProofs}, stop \in {"none", "invalid", "rng"} :
        \E reached \in ReachedSets(num_proofs) :
            /\ arena' = groth16_verify_batch_scratch(arena, num_proofs, reached, stop)
            /\ fn' = ScratchCall("groth16_verify_batch",
                                 [scratch |-> arena, n |-> num_proofs,
                                  reached |-> reached, stop |-> stop])
            /\ UNCHANGED <<excl, stats, init_vars, poseidon_vars, arena_live, arena_cps,
                           arena_ret, arena_rc, pairing_vars, api_vars,
                           g_pairing_initialized>>

\* regions of its scratch arena the thread holds for a purpose of its own
MaxScratchLive == 2

\* the thread allocates from its scratch arena
scratch_alloc_call ==
    \E size \in {1} :
        LET res == arena_alloc(arena, size)
        IN /\ Cardinality(arena_live) < MaxScratchLive
           /\ arena' = res.arena
           /\ arena_live' = IF res.ptr = NullPtr THEN arena_live
                            ELSE arena_live \cup
                                 {[block |-> res.ptr.block, lo |-> res.ptr.off,
                                   hi |-> res.ptr.off + size]}
           /\ fn' = NoFn
           /\ UNCHANGED <<excl, stats, init_vars, poseidon_vars, arena_cps, arena_ret,
                          arena_rc, pairing_vars, api_vars, g_pairing_initialized>>

\* scratch_arena_reset: the regions are given up
scratch_arena_reset ==
    /\ arena' = arena_reset(arena)
    /\ arena_live' = {}
    /\ fn' = NoFn
    /\ UNCHANGED <<excl, stats, init_vars, poseidon_vars, arena_cps, arena_ret,
                   arena_rc, pairing_vars, api_vars, g_pairing_initialized>>

\* the calls of one thread on its scratch arena, with pairing_init
NextScratch ==
    \/ pairing_init
    \/ pairing_multi_scratch_call
    \/ multi_scalar_mul_scratch_call
    \/ batch_verify_scratch_call
    \/ groth16_verify_batch_scratch_call
    \/ scratch_alloc_call
    \/ scratch_arena_reset

SpecScratch == Init /\ [][NextScratch]_vars

\* R^(-1) mod p
LimbRInv == CHOOSE k \in 1 .. (LIMB_MODULUS - 1) : (k * (LimbR % LIMB_MODULUS)) % LIMB_MODULUS = 1

\* C23 (as claimed): for canonical a and b, field_add, field_sub, field_mul,
\* field_sqr and field_neg return values in [0, p) equal to (a + b) mod p,
\* (a - b) mod p, a b R^(-1) mod p, a a R^(-1) mod p and (-a) mod p, and
\* mont_reduce of any input up to p 2^256 returns a value below p.
C23_FieldArithmetic ==
    /\ fn.op = "field_ops" =>
           LET a == FromLimbs(fn.in.a)
               b == FromLimbs(fn.in.b)
           IN /\ FromLimbs(fn.out.add) = (a + b) % LIMB_MODULUS
              /\ FromLimbs(fn.out.sub) = (a + LIMB_MODULUS - b) % LIMB_MODULUS
              /\ FromLimbs(fn.out.mul) = (((a * b) % LIMB_MODULUS) * LimbRInv) % LIMB_MODULUS
              /\ FromLimbs(fn.out.sqr) = (((a * a) % LIMB_MODULUS) * LimbRInv) % LIMB_MODULUS
              /\ FromLimbs(fn.out.neg) = (LIMB_MODULUS - a) % LIMB_MODULUS
    /\ fn.op = "mont_reduce" => FromLimbs(fn.out) < LIMB_MODULUS


\* C24 (as claimed): field_cmp is a three-way comparison of the values of
\* four limbs: -1, 0 or +1 as a is below, equal to or above b, the most
\* significant differing limb deciding, for every pair of limb values.
C24_FieldCmp ==
    fn.op = "field_cmp" =>
        LET a == FromLimbs(fn.in.a)
            b == FromLimbs(fn.in.b)
        IN fn.out = (IF a < b THEN 0 - 1 ELSE IF a = b THEN 0 ELSE 1)


\* C25 (as claimed): field_batch_inv agrees with field_inv element by
\* element for every list of canonical field elements, of length 0, 1 or
\* more, whether or not the scratch allocation succeeds: the i-th output is
\* field_inv of the i-th input, whatever the other inputs are.
C25_BatchInv ==
    fn.op = "field_batch_inv" =>
        /\ Len(fn.out) = Len(fn.in.a)
        /\ \A i \in 1 .. Len(fn.in.a) :
               fn.out[i] = field_inv_limbs(fn.in.asm, fn.in.a[i])

\* C26 (as claimed): every batch random coefficient is a scalar of half the
\* field width: the integer decoded from the random bytes, before the
\* conversion to Montgomery form, has its upper half zero and its lower
\* half is the random lower half, in batch_add and in random_scalar.
C26_Coefficient128 ==
    /\ fn.op = "batch_add_scalar" =>
           /\ fn.out.scalar < Pow2(FieldBits \div 2)
           /\ fn.out.scalar = field_from_bytes(fn.in.rand_bytes) % Pow2(FieldBits \div 2)
    /\ fn.op = "random_scalar" =>
           /\ fn.out.scalar < Pow2(FieldBits \div 2)
           /\ fn.out.scalar = fn.in.raw % Pow2(FieldBits \div 2)

\* C27: tetsuo_verify reports the first failing check in the order parse,
\* expiry, threshold, cryptographic check: a proof whose version is not 1
\* (or that does not parse) gets MALFORMED under every policy; a
\* well-formed proof that is expired gets EXPIRED also when it is below the
\* threshold; BELOW_THRESHOLD is reported only for a proof that is not
\* expired, and OK or INVALID_PROOF only for one that passed both.
C27_CheckOrder ==
    AfterVerify =>
        /\ ret.wire.version # 1 => ret.val = "TETSUO_ERR_MALFORMED"
        /\ ~WellFormedWire(ret.wire) => ret.val = "TETSUO_ERR_MALFORMED"
        /\ (/\ WellFormedWire(ret.wire)
            /\ ctx.current_time > 0
            /\ ret.wire.timestamp + ctx.max_proof_age < ctx.current_time
            /\ WireThreshold(ret.wire) < ctx.min_threshold)
           => ret.val = "TETSUO_ERR_EXPIRED"
        /\ (WellFormedWire(ret.wire) /\ WireExpired(ret.wire))
           => ret.val = "TETSUO_ERR_EXPIRED"
        /\ (/\ WellFormedWire(ret.wire)
            /\ ~WireExpired(ret.wire)
            /\ WireThreshold(ret.wire) < ctx.min_threshold)
           => ret.val = "TETSUO_ERR_BELOW_THRESHOLD"
        /\ (/\ WellFormedWire(ret.wire)
            /\ ~WireExpired(ret.wire)
            /\ WireThreshold(ret.wire) >= ctx.min_threshold)
           => ret.val \in {TETSUO_OK, TETSUO_ERR_INVALID_PROOF}

\* a well-formed proof, both expired and below the threshold, was reported
\* EXPIRED by a context with a key and an initialized pairing back-end
C27_Witness ==
    /\ AfterVerify
    /\ g_pairing_initialized
    /\ ctx.groth16_vk
    /\ WellFormedWire(ret.wire)
    /\ ctx.current_time > 0
    /\ ret.wire.timestamp + ctx.max_proof_age < ctx.current_time
    /\ WireThreshold(ret.wire) < ctx.min_threshold
    /\ ret.val = "TETSUO_ERR_EXPIRED"

\* the discrete logarithm of the sum of scalars[j] * points[j], j = 1 .. i
RECURSIVE NaiveSum(_, _, _)
NaiveSum(points, scalars, i) ==
    IF i = 0 THEN 0
    ELSE (NaiveSum(points, scalars, i - 1) + scalars[i] * points[i].v) % GROUP_ORDER

\* C28 (as claimed): multi_scalar_mul returns the group element that is
\* the sum of scalars[i] * points[i], the scalars read as integers from
\* their limbs: infinity for count = 0, point_mul for count = 1, the bucket
\* method for count >= 2, whose result is that of the naive sum.
C28_MsmIsSum ==
    fn.op = "multi_scalar_mul" =>
        fn.out = GroupElem(NaiveSum(fn.in.points, fn.in.scalars, Len(fn.in.points)))

ScratchOps == {"pairing_multi", "multi_scalar_mul_scratch", "batch_verify",
               "groth16_verify_batch"}

\* C29: on every exit path of batch_verify, multi_scalar_mul, pairing_multi
\* and groth16_verify_batch the scratch arena of the calling thread has the
\* current block and the used cursor it had at entry.
C29_ScratchReleased ==
    fn.op \in ScratchOps =>
        /\ arena.blocks[arena.current].id = fn.in.scratch.blocks[fn.in.scratch.current].id
        /\ arena.blocks[arena.current].used
               = fn.in.scratch.blocks[fn.in.scratch.current].used
        /\ arena_used(arena) = arena_used(fn.in.scratch)

\* groth16_verify_batch came back from its batch path with the arena used
\* before the call and grown by the call
C29_Witness ==
    /\ fn.op = "groth16_verify_batch"
    /\ g_pairing_initialized
    /\ fn.in.n = MaxScratchProofs
    /\ fn.in.stop = "none"
    /\ arena_used(fn.in.scratch) > 0
    /\ Len(arena.blocks) > Len(fn.in.scratch.blocks)


\* C30: verify_exclusion_proof never reads outside the caller's buffer: for
\* every proof_len it accepts (32 <= proof_len <= 32 + 256*33) and every
\* level it processes, every index of proof_data it reads, the direction
\* byte and the bytes of the sibling, is smaller than proof_len; a call
\* rejected for its length reads nothing.
C30_ReadsInBuffer ==
    excl.op = "tetsuo_verify_exclusion" =>
        /\ \A k \in excl.reads : 0 <= k /\ k < excl.proof.len
        /\ (excl.proof.len < FieldBytes
            \/ excl.proof.len > FieldBytes + ExclusionMaxDepth * LevelBytes)
           => excl.reads = {}
        /\ \A i \in 0 .. (excl.levels - 1) :
               (i * LevelBytes .. i * LevelBytes + FieldBytes) \subseteq excl.reads

\* a proof of full depth was walked to its last sibling byte, which is the
\* byte just before the 32 closing bytes of the buffer
C30_Witness ==
    /\ excl.op = "tetsuo_verify_exclusion"
    /\ excl.proof.len = FieldBytes + ExclusionMaxDepth * LevelBytes
    /\ excl.levels = ExclusionMaxDepth
    /\ (excl.proof.len - FieldBytes - 1) \in excl.reads
    /\ Cardinality(excl.reads) = ExclusionMaxDepth * LevelBytes

====
